---- MODULE Spec2Model ----
(***************************************************************************)
(* GameSync: the Steam Web API client (SteamApiService), its in-memory     *)
(* TTL cache (GameCache) and the rate limiter, as a state machine.         *)
(*                                                                         *)
(* Every asynchronous call of the client is a process that runs from one   *)
(* suspension point (an await) to the next in one atomic step, as on the   *)
(* single JavaScript thread.  Time is the value Date.now() returns.        *)
(***************************************************************************)
EXTENDS Integers, Sequences, FiniteSets

(***************************************************************************)
(* Bounds of the model.                                                    *)
(***************************************************************************)
\* Number of client calls (getOwnedGames / getPlayerSummary) in one run.
MaxCalls == 3
\* Number of client calls in a run of SpecTransport.
MaxTransportCalls == 2
\* Number of half-interval clock steps in one run.
MaxShortTicks == 2
\* Number of clock steps of one whole cache lifetime.
MaxLongTicks == 1
\* Number of getOwnedGames calls of other callers in a run of SpecOverlap.
MaxOtherCalls == 1
\* Length of the longest string given to validateSteamId.
MaxIdLen == 18
\* Length of the longest list given to processGamesList.
MaxGames == 2
\* Number of client calls in a run of SpecCache.
MaxCacheCalls == 2
\* Date.now() when the module is loaded (any value above the interval).
StartTime == 5000

(***************************************************************************)
(* Configuration (config/api.js).                                          *)
(***************************************************************************)
REQUESTS_PER_SECOND == 1
CACHE_DURATION == 60 * 60 * 1000

\* const minInterval = 1000 / STEAM_CONFIG.RATE_LIMITS.REQUESTS_PER_SECOND
minInterval == 1000 \div REQUESTS_PER_SECOND

(***************************************************************************)
(* JavaScript values.  A string is its sequence of characters.             *)
(***************************************************************************)
Undefined == [t |-> "undefined"]
JNull == [t |-> "null"]
Str(chars) == [t |-> "string", v |-> chars]
Num(n) == [t |-> "number", v |-> n]
Arr(elems) == [t |-> "array", v |-> elems]
Obj(fields) == [t |-> "object", v |-> fields]
Bool(b) == [t |-> "boolean", v |-> b]

\* ToBoolean: the truthiness the code's `!x` and `x || d` tests use.
Truthy(x) ==
    CASE x.t = "undefined" -> FALSE
      [] x.t = "null" -> FALSE
      [] x.t = "number" -> x.v # 0
      [] x.t = "string" -> Len(x.v) > 0
      [] x.t = "boolean" -> x.v
      [] OTHER -> TRUE

\* a || b
OrElse(a, b) == IF Truthy(a) THEN a ELSE b

\* obj.field for an object (an absent property reads as undefined).
Prop(obj, field) ==
    IF obj.t = "object" /\ field \in DOMAIN obj.v THEN obj.v[field] ELSE Undefined

\* Reading a property of null or undefined throws a TypeError.
PropThrows(obj) == obj.t \in {"null", "undefined"}

\* The decimal digits of a natural number.
DigitChars == <<"0","1","2","3","4","5","6","7","8","9">>

RECURSIVE DecimalOf(_)
DecimalOf(n) ==
    IF n < 10
    THEN <<DigitChars[n + 1]>>
    ELSE DecimalOf(n \div 10) \o <<DigitChars[(n % 10) + 1]>>

\* String(x), as template literals and RegExp.prototype.test apply it.  An
\* array is converted by join(','), where null and undefined elements give the
\* empty string; a plain object gives '[object Object]'.
RECURSIVE StringOf(_)
RECURSIVE Join(_)
Join(elems) ==
    IF Len(elems) = 0
    THEN <<>>
    ELSE LET head == IF elems[1].t \in {"null", "undefined"}
                     THEN <<>>
                     ELSE StringOf(elems[1])
         IN  IF Len(elems) = 1
             THEN head
             ELSE head \o <<",">> \o Join(Tail(elems))

StringOf(x) ==
    CASE x.t = "string" -> x.v
      [] x.t = "null" -> <<"n","u","l","l">>
      [] x.t = "undefined" -> <<"u","n","d","e","f","i","n","e","d">>
      [] x.t = "number" -> IF x.v < 0 THEN <<"-">> \o DecimalOf(0 - x.v) ELSE DecimalOf(x.v)
      [] x.t = "boolean" -> IF x.v THEN <<"t","r","u","e">> ELSE <<"f","a","l","s","e">>
      [] x.t = "array" -> Join(x.v)
      [] x.t = "object" -> <<"[","o","b","j","e","c","t"," ","O","b","j","e","c","t","]">>

\* s.includes(sub)
Includes(s, sub) ==
    \E i \in 0..(Len(s) - Len(sub)) : SubSeq(s, i + 1, i + Len(sub)) = sub

Digits == {"0","1","2","3","4","5","6","7","8","9"}

(***************************************************************************)
(* STEAM_ERRORS (config/api.js) and thrown values.                         *)
(***************************************************************************)
STEAM_ERRORS ==
    [ PRIVATE_PROFILE |-> <<"P","R","I","V","A","T","E","_","P","R","O","F","I","L","E">>,
      INVALID_STEAM_ID |-> <<"I","N","V","A","L","I","D","_","S","T","E","A","M","_","I","D">>,
      RATE_LIMIT_EXCEEDED |-> <<"R","A","T","E","_","L","I","M","I","T","_","E","X","C","E","E","D","E","D">>,
      API_UNAVAILABLE |-> <<"A","P","I","_","U","N","A","V","A","I","L","A","B","L","E">>,
      NETWORK_ERROR |-> <<"N","E","T","W","O","R","K","_","E","R","R","O","R">> ]

\* A thrown value: its .name and its .message (hasMessage is FALSE for a thrown
\* value that is no Error object and so has no message property).
Thrown(name, message) == [name |-> name, hasMessage |-> TRUE, message |-> message]

\* new Error(message)
NewError(message) == Thrown("Error", message)

\* The TypeError the engine throws for a property read of undefined or null.
EngineTypeError ==
    Thrown("TypeError", <<"C","a","n","n","o","t"," ","r","e","a","d"," ","p","r","o","p","e","r","t","i","e","s">>)

(***************************************************************************)
(* SteamApiService.validateSteamId: /^\d{17}$/.test(steamId)               *)
(***************************************************************************)
\* Mutant of validateSteamId: the pattern is not anchored at the end.
validateSteamIdUnanchored(steamId) ==
    LET s == StringOf(steamId)
    IN  /\ Len(s) >= 17
        /\ \A i \in 1..17 : s[i] \in Digits

validateSteamId(steamId) ==
    LET s == StringOf(steamId)
    IN  /\ Len(s) = 17
        /\ \A i \in 1..Len(s) : s[i] \in Digits

(***************************************************************************)
(* GameCache (utils/gameCache.js).  The Map is a function from keys to     *)
(* entries {data, timestamp}; `t` is the value of Date.now().              *)
(***************************************************************************)
KindGames == <<"g","a","m","e","s">>
KindProfile == <<"p","r","o","f","i","l","e">>

\* Mutant of generateKey: the identifier is not part of the key.
generateKeyWithoutId(steamId, requestType) ==
    <<"s","t","e","a","m","_">> \o requestType

\* Mutant of generateKey: the request type is not part of the key.
generateKeyWithoutKind(steamId, requestType) ==
    <<"s","t","e","a","m","_">> \o StringOf(steamId)

\* `steam_${requestType}_${steamId}`
generateKey(steamId, requestType) ==
    <<"s","t","e","a","m","_">> \o requestType \o <<"_">> \o StringOf(steamId)

\* Mutant of Expired: an entry expires when its age reaches the TTL.
ExpiredAtTtl(entry, t) == t - entry.timestamp >= CACHE_DURATION

\* now - cached.timestamp > this.cacheDuration
Expired(entry, t) == t - entry.timestamp > CACHE_DURATION

MapDelete(m, key) == [k \in DOMAIN m \ {key} |-> m[k]]

MapSet(m, key, value) == [k \in DOMAIN m \cup {key} |-> IF k = key THEN value ELSE m[k]]

\* Mutant of get: a hit stamps the entry with the time of the read.
getRefreshingOnHit(m, steamId, requestType, t) ==
    LET key == generateKey(steamId, requestType)
    IN  IF key \notin DOMAIN m
        THEN [ret |-> JNull, cache |-> m]
        ELSE IF Expired(m[key], t)
             THEN [ret |-> JNull, cache |-> MapDelete(m, key)]
             ELSE [ret |-> m[key].data,
                   cache |-> MapSet(m, key, [data |-> m[key].data, timestamp |-> t])]

\* Mutant of get: the found entry's data is never returned.
getNeverReturnsData(m, steamId, requestType, t) ==
    LET key == generateKey(steamId, requestType)
    IN  IF key \in DOMAIN m /\ Expired(m[key], t)
        THEN [ret |-> JNull, cache |-> MapDelete(m, key)]
        ELSE [ret |-> JNull, cache |-> m]

\* GameCache.get: the value returned (ret) and the Map afterwards (cache).
get(m, steamId, requestType, t) ==
    LET key == generateKey(steamId, requestType)
    IN  IF key \notin DOMAIN m
        THEN [ret |-> JNull, cache |-> m]
        ELSE IF Expired(m[key], t)
             THEN [ret |-> JNull, cache |-> MapDelete(m, key)]
             ELSE [ret |-> m[key].data, cache |-> m]

\* Mutant of set: the entry is stored under the raw identifier, not the key.
setUnderRawId(m, steamId, data, requestType, t) ==
    MapSet(m, StringOf(steamId), [data |-> data, timestamp |-> t])

\* GameCache.set
set(m, steamId, data, requestType, t) ==
    MapSet(m, generateKey(steamId, requestType), [data |-> data, timestamp |-> t])

\* Mutant of cleanup: an entry is swept from age D on.
cleanupAtTtl(m, t) ==
    [k \in {x \in DOMAIN m : ~ExpiredAtTtl(m[x], t)} |-> m[k]]

\* GameCache.cleanup
cleanup(m, t) ==
    [k \in {x \in DOMAIN m : ~Expired(m[x], t)} |-> m[k]]

\* GameCache.clear
clear(m) == [k \in {} |-> m[k]]

\* Mutant of GameCacheGetStats: an entry counts as expired from age D on.
GameCacheGetStatsAtTtl(m, t) ==
    Obj([ totalEntries |-> Num(Cardinality(DOMAIN m)),
          validEntries |-> Num(Cardinality({k \in DOMAIN m : ~ExpiredAtTtl(m[k], t)})),
          expiredEntries |-> Num(Cardinality({k \in DOMAIN m : ExpiredAtTtl(m[k], t)})),
          cacheDuration |-> Num(CACHE_DURATION) ])

\* GameCache.getStats: the loop over this.cache.values() counts the entries on
\* each side of the test of get.
GameCacheGetStats(m, t) ==
    Obj([ totalEntries |-> Num(Cardinality(DOMAIN m)),
          validEntries |-> Num(Cardinality({k \in DOMAIN m : ~Expired(m[k], t)})),
          expiredEntries |-> Num(Cardinality({k \in DOMAIN m : Expired(m[k], t)})),
          cacheDuration |-> Num(CACHE_DURATION) ])

(***************************************************************************)
(* SteamApiService.makeRequest: the classification of the transport's      *)
(* outcome.                                                                *)
(***************************************************************************)
\* Mutant of StatusError: the 403 branch is missing.
StatusErrorWithout403(status) ==
    IF status = 429
    THEN NewError(STEAM_ERRORS.RATE_LIMIT_EXCEEDED)
    ELSE NewError(STEAM_ERRORS.API_UNAVAILABLE)

\* if (!response.ok) { 429 / 403 / otherwise }: the error thrown in the try block.
StatusError(status) ==
    IF status = 429
    THEN NewError(STEAM_ERRORS.RATE_LIMIT_EXCEEDED)
    ELSE IF status = 403
         THEN NewError(STEAM_ERRORS.PRIVATE_PROFILE)
         ELSE NewError(STEAM_ERRORS.API_UNAVAILABLE)

\* catch (error) { ... }: what makeRequest throws for a value thrown in its try
\* block.  Reading .includes of a missing message itself throws a TypeError.
makeRequestCatch(error) ==
    IF error.name = "TypeError"
    THEN NewError(STEAM_ERRORS.NETWORK_ERROR)
    ELSE IF ~error.hasMessage
         THEN EngineTypeError
         ELSE IF Includes(error.message, <<"f","e","t","c","h">>)
              THEN NewError(STEAM_ERRORS.NETWORK_ERROR)
              ELSE error

\* The outcome of an async function: a returned value or a thrown error.
Pending == [kind |-> "pending"]
Returned(value) == [kind |-> "returned", value |-> value]
Threw(error) == [kind |-> "threw", error |-> error]

\* new Date().toISOString(): the instant, as a string.
toISOString(t) == Str(<<"ISO", t>>)

(***************************************************************************)
(* SteamApiService.getOwnedGames / getPlayerSummary after makeRequest has  *)
(* returned `data`: the outcome of the rest of the try block.              *)
(***************************************************************************)
\* Mutant of ownedGamesResult: only the response object is required.
ownedGamesResultWithoutGamesCheck(steamId, data, t) ==
    IF PropThrows(data)
    THEN Threw(EngineTypeError)
    ELSE LET response == Prop(data, "response")
         IN  IF ~Truthy(response)
             THEN Threw(NewError(STEAM_ERRORS.PRIVATE_PROFILE))
             ELSE Returned(Obj([ steamId |-> steamId,
                                 gameCount |-> OrElse(Prop(response, "game_count"), Num(0)),
                                 games |-> OrElse(Prop(response, "games"), Arr(<<>>)),
                                 fetchedAt |-> toISOString(t) ]))

\* Mutant of ownedGamesResult: game_count is copied without a default.
ownedGamesResultWithoutCountDefault(steamId, data, t) ==
    IF PropThrows(data)
    THEN Threw(EngineTypeError)
    ELSE LET response == Prop(data, "response")
         IN  IF ~Truthy(response) \/ ~Truthy(Prop(response, "games"))
             THEN Threw(NewError(STEAM_ERRORS.PRIVATE_PROFILE))
             ELSE Returned(Obj([ steamId |-> steamId,
                                 gameCount |-> Prop(response, "game_count"),
                                 games |-> OrElse(Prop(response, "games"), Arr(<<>>)),
                                 fetchedAt |-> toISOString(t) ]))

ownedGamesResult(steamId, data, t) ==
    IF PropThrows(data)
    THEN Threw(EngineTypeError)
    ELSE LET response == Prop(data, "response")
         IN  IF ~Truthy(response) \/ ~Truthy(Prop(response, "games"))
             THEN Threw(NewError(STEAM_ERRORS.PRIVATE_PROFILE))
             ELSE Returned(Obj([ steamId |-> steamId,
                                 gameCount |-> OrElse(Prop(response, "game_count"), Num(0)),
                                 games |-> OrElse(Prop(response, "games"), Arr(<<>>)),
                                 fetchedAt |-> toISOString(t) ]))

playerSummaryResult(steamId, data) ==
    IF PropThrows(data)
    THEN Threw(EngineTypeError)
    ELSE LET response == Prop(data, "response")
             players == Prop(response, "players")
         IN  IF \/ ~Truthy(response)
                \/ ~Truthy(players)
                \/ (players.t = "array" /\ Len(players.v) = 0)
             THEN Threw(NewError(STEAM_ERRORS.INVALID_STEAM_ID))
             ELSE IF players.t # "array" \/ PropThrows(players.v[1])
                  THEN Threw(EngineTypeError)
                  ELSE LET player == players.v[1]
                       IN  Returned(Obj([ steamId |-> Prop(player, "steamid"),
                                          personaName |-> Prop(player, "personaname"),
                                          profileUrl |-> Prop(player, "profileurl"),
                                          avatar |-> Prop(player, "avatar"),
                                          profileVisibility |-> Prop(player, "communityvisibilitystate") ]))

(***************************************************************************)
(* SteamApiService.processGamesList: games.map(game => ({ ... }))          *)
(***************************************************************************)
\* Mutant of processGamesList: the raw fields are copied without defaults.
processGamesListWithoutDefaults(games) ==
    Arr([ i \in 1..Len(games.v) |->
            LET game == games.v[i]
            IN  Obj([ appId |-> Prop(game, "appid"),
                      name |-> Prop(game, "name"),
                      playtimeForever |-> Prop(game, "playtime_forever"),
                      playtime2Weeks |-> Prop(game, "playtime_2weeks"),
                      imgIconUrl |-> Prop(game, "img_icon_url"),
                      imgLogoUrl |-> Prop(game, "img_logo_url"),
                      hasPublicStatsSupport |-> Prop(game, "has_community_visible_stats") ]) ])

processGamesList(games) ==
    Arr([ i \in 1..Len(games.v) |->
            LET game == games.v[i]
            IN  Obj([ appId |-> Prop(game, "appid"),
                      name |-> Prop(game, "name"),
                      playtimeForever |-> OrElse(Prop(game, "playtime_forever"), Num(0)),
                      playtime2Weeks |-> OrElse(Prop(game, "playtime_2weeks"), Num(0)),
                      imgIconUrl |-> Prop(game, "img_icon_url"),
                      imgLogoUrl |-> Prop(game, "img_logo_url"),
                      hasPublicStatsSupport |->
                          OrElse(Prop(game, "has_community_visible_stats"), Bool(FALSE)) ]) ])

(***************************************************************************)
(* SteamApiService.findOverlappingGames: the precondition and, once every  *)
(* library is collected, the games that appear in all of them.             *)
(***************************************************************************)
TooFewIds ==
    <<"A","t"," ","l","e","a","s","t"," ","2"," ","S","t","e","a","m"," ","I","D","s"," ",
      "r","e","q","u","i","r","e","d"," ","t","o"," ","f","i","n","d"," ",
      "o","v","e","r","l","a","p","s">>

\* Mutant of tooFewSteamIds: a single identifier is accepted.
tooFewSteamIdsBelowOne(steamIds) == ~Truthy(steamIds) \/ Len(steamIds.v) < 1

\* !steamIds || steamIds.length < 2
tooFewSteamIds(steamIds) == ~Truthy(steamIds) \/ Len(steamIds.v) < 2

\* library.games.some(libGame => libGame.appid === game.appid)
ownsGame(library, game) ==
    \E j \in 1..Len(library.games.v) :
        Prop(library.games.v[j], "appid") = Prop(game, "appid")

\* Mutant of overlappingGames: a game owned by any other library is kept.
overlappingGamesOwnedByAny(steamIds, libraries) ==
    IF Len(libraries) = 0
    THEN Arr(<<>>)
    ELSE LET firstLibrary == libraries[1].games.v
             appearsInAll(game) ==
                 \E k \in 2..Len(libraries) : ownsGame(libraries[k], game)
             kept == SelectSeq(firstLibrary, appearsInAll)
         IN  Arr([ i \in 1..Len(kept) |->
                     Obj([ appId |-> Prop(kept[i], "appid"),
                           name |-> Prop(kept[i], "name"),
                           imgIconUrl |-> Prop(kept[i], "img_icon_url"),
                           ownedBy |-> Num(Len(steamIds.v)) ]) ])

\* The loop over firstLibrary that builds overlappingGames.
overlappingGames(steamIds, libraries) ==
    IF Len(libraries) = 0
    THEN Arr(<<>>)
    ELSE LET firstLibrary == libraries[1].games.v
             appearsInAll(game) ==
                 \A k \in 1..Len(libraries) : ownsGame(libraries[k], game)
             kept == SelectSeq(firstLibrary, appearsInAll)
         IN  Arr([ i \in 1..Len(kept) |->
                     Obj([ appId |-> Prop(kept[i], "appid"),
                           name |-> Prop(kept[i], "name"),
                           imgIconUrl |-> Prop(kept[i], "img_icon_url"),
                           ownedBy |-> Num(Len(steamIds.v)) ]) ])

(***************************************************************************)
(* Inputs: the arguments callers pass and the answers the transport gives. *)
(***************************************************************************)
IdA == Str(<<"7","6","5","6","1","1","9","8","0","0","1","2","3","4","5","6","7">>)
IdB == Str(<<"7","6","5","6","1","1","9","8","0","0","1","2","3","4","5","6","8">>)
IdInvalid == Str(<<"i","n","v","a","l","i","d">>)
SteamIds == {IdA, IdB, IdInvalid}

\* response.status of a response with ok = false.
Statuses == {429, 403, 404, 500}

\* Values fetch() or response.json() may reject with.
NoMessage == [name |-> "none", hasMessage |-> FALSE, message |-> <<>>]
ThrownByFetch ==
    { Thrown("TypeError", <<"N","e","t","w","o","r","k"," ","r","e","q","u","e","s","t"," ","f","a","i","l","e","d">>),
      Thrown("Error", <<"f","e","t","c","h"," ","f","a","i","l","e","d">>),
      Thrown("Error", <<"E","C","O","N","N","R","E","S","E","T">>),
      NoMessage }
ThrownByJson ==
    { Thrown("SyntaxError", <<"U","n","e","x","p","e","c","t","e","d"," ","t","o","k","e","n">>) }

Game(appid, name) == Obj([appid |-> Num(appid), name |-> Str(name)])
Player(steamId) == Obj([steamid |-> steamId, personaname |-> Str(<<"p">>)])
EmptyObject == Obj([k \in {} |-> Undefined])

\* Bodies response.json() may resolve to.
Bodies ==
    { JNull,
      EmptyObject,
      Obj([response |-> EmptyObject]),
      Obj([response |-> Obj([game_count |-> Num(2),
                             games |-> Arr(<<Game(730, <<"C","S">>), Game(570, <<"D">>)>>)])]),
      Obj([response |-> Obj([games |-> Arr(<<Game(730, <<"C","S">>)>>)])]),
      Obj([response |-> Obj([players |-> Arr(<<Player(IdA)>>)])]),
      Obj([response |-> Obj([players |-> Arr(<<>>)])]) }

(***************************************************************************)
(* State.                                                                  *)
(***************************************************************************)
VARIABLES
    now,              \* Date.now()
    lastRequestTime,  \* SteamApiService.lastRequestTime
    requestCount,     \* SteamApiService.requestCount
    cache,            \* GameCache.cache (the Map)
    calls,            \* the client calls: arguments, position, outcome
    grants,           \* history: the rate limiter's grants, in order
    transport,        \* history: the calls whose fetch() was issued, in order
    overlap,          \* the findOverlappingGames call: arguments, position, outcome
    applied           \* the call of a synchronous method: argument and result

vars ==
    <<now, lastRequestTime, requestCount, cache, calls, grants, transport, overlap, applied>>

\* What the client's own calls leave alone.
others == <<overlap, applied>>

Calls == 1..MaxCalls

\* A call not yet issued.  pc is the await the call is suspended at:
\*   "sleeping"  the setTimeout promise in enforceRateLimit
\*   "granted"   await this.enforceRateLimit() in makeRequest (a microtask)
\*   "fetching"  await fetch(url), then await response.json()
\*   "done"      the call's promise is settled (outcome)
\* answer and sawClear record the call's history: what the transport answered,
\* and whether the cache was cleared since the call was issued.
NoAnswer == [kind |-> "none"]
IdleCall ==
    [ op |-> "none", steamId |-> Undefined, useCache |-> FALSE, pc |-> "idle",
      wakeAt |-> 0, outcome |-> Pending, answer |-> NoAnswer, sawClear |-> FALSE ]

\* findOverlappingGames not yet called.  pc "awaiting" is the loop's
\* `await this.getOwnedGames(steamId)` for steamIds[i], made as call `awaiting`;
\* started lists the calls the loop has made, in order.
NoOverlap ==
    [ pc |-> "idle", steamIds |-> Undefined, i |-> 0, awaiting |-> 0,
      libraries |-> <<>>, started |-> <<>>, outcome |-> Pending ]

\* No synchronous method applied yet.
NotApplied == [fn |-> "none", arg |-> Undefined, result |-> Pending]

Init ==
    /\ overlap = NoOverlap
    /\ applied = NotApplied
    /\ now = StartTime
    /\ lastRequestTime = 0
    /\ requestCount = 0
    /\ cache = [k \in {} |-> Undefined]
    /\ calls = [c \in Calls |-> IdleCall]
    /\ grants = <<>>
    /\ transport = <<>>

\* Calls are numbered in the order they are issued.
CanStart(c) ==
    /\ calls[c].pc = "idle"
    /\ \A d \in Calls : d < c => calls[d].pc # "idle"

Issued(c, op, steamId, useCache) ==
    [IdleCall EXCEPT !.op = op, !.steamId = steamId, !.useCache = useCache]

Finish(rec, outcome) ==
    [rec EXCEPT !.pc = "done", !.outcome = outcome]

(***************************************************************************)
(* SteamApiService.enforceRateLimit, entered by call c (record rec): up to *)
(* its await, or to its end when it does not wait.                         *)
(***************************************************************************)
\* Mutant of enforceRateLimit: the caller is never made to wait.
enforceRateLimitWithoutWait(c, rec) ==
    /\ calls' = [calls EXCEPT ![c] = [rec EXCEPT !.pc = "granted"]]
    /\ lastRequestTime' = now
    /\ requestCount' = requestCount + 1
    /\ grants' = Append(grants, [call |-> c, at |-> now])

\* Mutant of enforceRateLimit: a caller queues behind the callers that are
\* already waiting.
enforceRateLimitQueued(c, rec) ==
    LET timeSinceLastRequest == now - lastRequestTime
        waiting == {d \in Calls : calls[d].pc = "sleeping"}
    IN  IF timeSinceLastRequest < minInterval
        THEN /\ calls' = [calls EXCEPT ![c] =
                    [rec EXCEPT !.pc = "sleeping",
                                !.wakeAt = now + (minInterval - timeSinceLastRequest)
                                               + minInterval * Cardinality(waiting)]]
             /\ UNCHANGED <<lastRequestTime, requestCount, grants>>
        ELSE /\ calls' = [calls EXCEPT ![c] = [rec EXCEPT !.pc = "granted"]]
             /\ lastRequestTime' = now
             /\ requestCount' = requestCount + 1
             /\ grants' = Append(grants, [call |-> c, at |-> now])

enforceRateLimit(c, rec) ==
    LET timeSinceLastRequest == now - lastRequestTime
    IN  IF timeSinceLastRequest < minInterval
        THEN /\ calls' = [calls EXCEPT ![c] =
                    [rec EXCEPT !.pc = "sleeping",
                                !.wakeAt = now + (minInterval - timeSinceLastRequest)]]
             /\ UNCHANGED <<lastRequestTime, requestCount, grants>>
        ELSE /\ calls' = [calls EXCEPT ![c] = [rec EXCEPT !.pc = "granted"]]
             /\ lastRequestTime' = now
             /\ requestCount' = requestCount + 1
             /\ grants' = Append(grants, [call |-> c, at |-> now])

\* Mutant of TimerFires: a grant after a wait is not counted.
TimerFiresUncounted(c) ==
    /\ calls[c].pc = "sleeping"
    /\ now >= calls[c].wakeAt
    /\ calls' = [calls EXCEPT ![c].pc = "granted"]
    /\ lastRequestTime' = now
    /\ grants' = Append(grants, [call |-> c, at |-> now])
    /\ UNCHANGED <<now, requestCount, cache, transport>>

\* Mutant of TimerFires: lastRequestTime is not stamped after the wait.
TimerFiresKeepingStamp(c) ==
    /\ calls[c].pc = "sleeping"
    /\ now >= calls[c].wakeAt
    /\ calls' = [calls EXCEPT ![c].pc = "granted"]
    /\ requestCount' = requestCount + 1
    /\ grants' = Append(grants, [call |-> c, at |-> now])
    /\ UNCHANGED <<now, lastRequestTime, cache, transport>>

\* The setTimeout of enforceRateLimit fires: the rest of enforceRateLimit.
TimerFires(c) ==
    /\ calls[c].pc = "sleeping"
    /\ now >= calls[c].wakeAt
    /\ calls' = [calls EXCEPT ![c].pc = "granted"]
    /\ lastRequestTime' = now
    /\ requestCount' = requestCount + 1
    /\ grants' = Append(grants, [call |-> c, at |-> now])
    /\ UNCHANGED <<now, cache, transport>>

(***************************************************************************)
(* SteamApiService.getOwnedGames and getPlayerSummary: from the call to    *)
(* the first await.                                                        *)
(***************************************************************************)
\* Mutant of cachedOrRequest: the cache is consulted whatever useCache says.
cachedOrRequestIgnoringFlag(c, rec, requestType, useCache) ==
    LET looked == get(cache, rec.steamId, requestType, now)
    IN  IF Truthy(looked.ret)
        THEN /\ calls' = [calls EXCEPT ![c] = Finish(rec, Returned(looked.ret))]
             /\ cache' = looked.cache
             /\ UNCHANGED <<lastRequestTime, requestCount, grants>>
        ELSE /\ cache' = looked.cache
             /\ enforceRateLimit(c, rec)

\* The cache check and, on a miss, the entry into makeRequest.
cachedOrRequest(c, rec, requestType, useCache) ==
    LET looked == IF useCache
                  THEN get(cache, rec.steamId, requestType, now)
                  ELSE [ret |-> JNull, cache |-> cache]
    IN  IF useCache /\ Truthy(looked.ret)
        THEN /\ calls' = [calls EXCEPT ![c] = Finish(rec, Returned(looked.ret))]
             /\ cache' = looked.cache
             /\ UNCHANGED <<lastRequestTime, requestCount, grants>>
        ELSE /\ cache' = looked.cache
             /\ enforceRateLimit(c, rec)

\* Mutant of getOwnedGames: the identifier is not validated.
getOwnedGamesUnvalidated(c, steamId, useCache) ==
    /\ CanStart(c)
    /\ cachedOrRequest(c, Issued(c, "games", steamId, useCache), KindGames, useCache)
    /\ UNCHANGED <<now, transport>>

getOwnedGames(c, steamId, useCache) ==
    /\ CanStart(c)
    /\ LET rec == Issued(c, "games", steamId, useCache)
       IN  IF ~validateSteamId(steamId)
           THEN /\ calls' = [calls EXCEPT ![c] =
                       Finish(rec, Threw(NewError(STEAM_ERRORS.INVALID_STEAM_ID)))]
                /\ UNCHANGED <<cache, lastRequestTime, requestCount, grants>>
           ELSE cachedOrRequest(c, rec, KindGames, useCache)
    /\ UNCHANGED <<now, transport>>

\* Mutant of getPlayerSummary: the cache is read under kind 'games'.
getPlayerSummaryUnderGames(c, steamId) ==
    /\ CanStart(c)
    /\ LET rec == Issued(c, "profile", steamId, TRUE)
       IN  IF ~validateSteamId(steamId)
           THEN /\ calls' = [calls EXCEPT ![c] =
                       Finish(rec, Threw(NewError(STEAM_ERRORS.INVALID_STEAM_ID)))]
                /\ UNCHANGED <<cache, lastRequestTime, requestCount, grants>>
           ELSE cachedOrRequest(c, rec, KindGames, TRUE)
    /\ UNCHANGED <<now, transport>>

getPlayerSummary(c, steamId) ==
    /\ CanStart(c)
    /\ LET rec == Issued(c, "profile", steamId, TRUE)
       IN  IF ~validateSteamId(steamId)
           THEN /\ calls' = [calls EXCEPT ![c] =
                       Finish(rec, Threw(NewError(STEAM_ERRORS.INVALID_STEAM_ID)))]
                /\ UNCHANGED <<cache, lastRequestTime, requestCount, grants>>
           ELSE cachedOrRequest(c, rec, KindProfile, TRUE)
    /\ UNCHANGED <<now, transport>>

(***************************************************************************)
(* SteamApiService.makeRequest, resumed after enforceRateLimit.            *)
(***************************************************************************)
\* const response = await fetch(url): the transport call is issued.
IssueFetch(c) ==
    /\ calls[c].pc = "granted"
    /\ calls' = [calls EXCEPT ![c].pc = "fetching"]
    /\ transport' = Append(transport, c)
    /\ UNCHANGED <<now, lastRequestTime, requestCount, cache, grants>>

\* Mutant of FailRequest: a failed request drops the entry of its key.
FailRequestInvalidating(c, answer, error) ==
    /\ calls' = [calls EXCEPT ![c] =
            Finish([calls[c] EXCEPT !.answer = answer], Threw(makeRequestCatch(error)))]
    /\ cache' = MapDelete(cache, generateKey(calls[c].steamId,
                              IF calls[c].op = "games" THEN KindGames ELSE KindProfile))
    /\ UNCHANGED <<now, lastRequestTime, requestCount, grants, transport>>

\* A value thrown in makeRequest's try block goes through its catch block and
\* then unchanged through the caller's `catch (error) { throw error; }`.
FailRequest(c, answer, error) ==
    /\ calls' = [calls EXCEPT ![c] =
            Finish([calls[c] EXCEPT !.answer = answer], Threw(makeRequestCatch(error)))]
    /\ UNCHANGED <<now, lastRequestTime, requestCount, cache, grants, transport>>

\* fetch() rejects.
FetchRejects(c, error) ==
    /\ calls[c].pc = "fetching"
    /\ FailRequest(c, [kind |-> "rejected", error |-> error], error)

\* fetch() resolves with a response that is not ok.
FetchNotOk(c, status) ==
    /\ calls[c].pc = "fetching"
    /\ FailRequest(c, [kind |-> "status", status |-> status], StatusError(status))

\* fetch() resolves with an ok response and response.json() rejects.  (The
\* await between the two changes no state, so both settle in one step.)
JsonRejects(c, error) ==
    /\ calls[c].pc = "fetching"
    /\ FailRequest(c, [kind |-> "unparsed", error |-> error], error)

\* Mutant of JsonResolves: the result is stored only when the key has no entry.
JsonResolvesKeepingEntry(c, data) ==
    /\ calls[c].pc = "fetching"
    /\ LET rec == [calls[c] EXCEPT !.answer = [kind |-> "body", data |-> data]]
           outcome == IF rec.op = "games"
                      THEN ownedGamesResult(rec.steamId, data, now)
                      ELSE playerSummaryResult(rec.steamId, data)
           kind == IF rec.op = "games" THEN KindGames ELSE KindProfile
       IN  /\ calls' = [calls EXCEPT ![c] = Finish(rec, outcome)]
           /\ cache' = IF /\ outcome.kind = "returned"
                          /\ generateKey(rec.steamId, kind) \notin DOMAIN cache
                       THEN set(cache, rec.steamId, outcome.value, kind, now)
                       ELSE cache
    /\ UNCHANGED <<now, lastRequestTime, requestCount, grants, transport>>

\* Mutant of JsonResolves: the result is cached only when useCache is set.
JsonResolvesCachingIfEnabled(c, data) ==
    /\ calls[c].pc = "fetching"
    /\ LET rec == [calls[c] EXCEPT !.answer = [kind |-> "body", data |-> data]]
           outcome == IF rec.op = "games"
                      THEN ownedGamesResult(rec.steamId, data, now)
                      ELSE playerSummaryResult(rec.steamId, data)
           kind == IF rec.op = "games" THEN KindGames ELSE KindProfile
       IN  /\ calls' = [calls EXCEPT ![c] = Finish(rec, outcome)]
           /\ cache' = IF outcome.kind = "returned" /\ rec.useCache
                       THEN set(cache, rec.steamId, outcome.value, kind, now)
                       ELSE cache
    /\ UNCHANGED <<now, lastRequestTime, requestCount, grants, transport>>

\* fetch() resolves with an ok response and response.json() resolves with data:
\* makeRequest returns it and the caller (getOwnedGames or getPlayerSummary)
\* runs to its end.
JsonResolves(c, data) ==
    /\ calls[c].pc = "fetching"
    /\ LET rec == [calls[c] EXCEPT !.answer = [kind |-> "body", data |-> data]]
           outcome == IF rec.op = "games"
                      THEN ownedGamesResult(rec.steamId, data, now)
                      ELSE playerSummaryResult(rec.steamId, data)
           kind == IF rec.op = "games" THEN KindGames ELSE KindProfile
       IN  /\ calls' = [calls EXCEPT ![c] = Finish(rec, outcome)]
           /\ cache' = IF outcome.kind = "returned"
                       THEN set(cache, rec.steamId, outcome.value, kind, now)
                       ELSE cache
    /\ UNCHANGED <<now, lastRequestTime, requestCount, grants, transport>>

(***************************************************************************)
(* SteamApiService.findOverlappingGames.  Each turn of its loop makes one  *)
(* getOwnedGames call and is suspended until that call has settled.        *)
(***************************************************************************)
\* What the loop pushes to libraries for the settled call c: the try branch
\* for a returned library, the catch branch for a thrown error.
LibraryOf(c) ==
    IF calls[c].outcome.kind = "returned"
    THEN [ steamId |-> calls[c].steamId,
           games |-> Prop(calls[c].outcome.value, "games"),
           error |-> Undefined ]
    ELSE [ steamId |-> calls[c].steamId,
           games |-> Arr(<<>>),
           error |-> IF calls[c].outcome.error.hasMessage
                     THEN Str(calls[c].outcome.error.message)
                     ELSE Undefined ]

\* Mutant of LibraryPushed: a library that failed is left out of libraries.
LibraryPushedOnSuccess(libraries, c) ==
    IF calls[c].outcome.kind = "returned"
    THEN Append(libraries, LibraryOf(c))
    ELSE libraries

\* libraries.push({ ... }) in the try branch or in the catch branch.
LibraryPushed(libraries, c) == Append(libraries, LibraryOf(c))

\* Mutant of OverlapLoop: the loop's getOwnedGames calls bypass the cache.
OverlapLoopBypassingCache(rec) ==
    IF rec.i <= Len(rec.steamIds.v)
    THEN \E c \in Calls :
            /\ getOwnedGames(c, rec.steamIds.v[rec.i], FALSE)
            /\ overlap' = [rec EXCEPT !.pc = "awaiting", !.awaiting = c,
                                      !.started = Append(@, c)]
    ELSE /\ overlap' = [rec EXCEPT !.pc = "done", !.awaiting = 0,
                                   !.outcome = Returned(overlappingGames(rec.steamIds, rec.libraries))]
         /\ UNCHANGED <<now, lastRequestTime, requestCount, cache, calls, grants, transport>>

\* The loop from the turn for steamIds[rec.i] on: the next getOwnedGames call
\* up to its first await or, after the last identifier, the rest of the method.
OverlapLoop(rec) ==
    IF rec.i <= Len(rec.steamIds.v)
    THEN \E c \in Calls :
            /\ getOwnedGames(c, rec.steamIds.v[rec.i], TRUE)
            /\ overlap' = [rec EXCEPT !.pc = "awaiting", !.awaiting = c,
                                      !.started = Append(@, c)]
    ELSE /\ overlap' = [rec EXCEPT !.pc = "done", !.awaiting = 0,
                                   !.outcome = Returned(overlappingGames(rec.steamIds, rec.libraries))]
         /\ UNCHANGED <<now, lastRequestTime, requestCount, cache, calls, grants, transport>>

\* The number of calls not yet issued.
SlotsLeft == Cardinality({c \in Calls : calls[c].pc = "idle"})

\* findOverlappingGames(steamIds) up to its first await.  (A list longer than
\* the calls left in the run is not started.)
findOverlappingGames(steamIds) ==
    /\ overlap.pc = "idle"
    /\ IF tooFewSteamIds(steamIds)
       THEN /\ overlap' = [NoOverlap EXCEPT !.pc = "done", !.steamIds = steamIds,
                                            !.outcome = Threw(NewError(TooFewIds))]
            /\ UNCHANGED <<now, lastRequestTime, requestCount, cache, calls, grants, transport>>
       ELSE /\ Len(steamIds.v) <= SlotsLeft
            /\ OverlapLoop([NoOverlap EXCEPT !.steamIds = steamIds, !.i = 1])
    /\ UNCHANGED applied

\* The awaited getOwnedGames call has settled: the loop's continuation runs.
OverlapResumable ==
    /\ overlap.pc = "awaiting"
    /\ calls[overlap.awaiting].pc = "done"

ResumeOverlap ==
    /\ OverlapResumable
    /\ OverlapLoop([overlap EXCEPT !.libraries = LibraryPushed(@, overlap.awaiting),
                                   !.i = @ + 1])
    /\ UNCHANGED applied

(***************************************************************************)
(* The cache's other operations and the clock.                             *)
(***************************************************************************)
\* gameCache.clear()
Clear ==
    /\ cache # clear(cache)
    /\ cache' = clear(cache)
    /\ calls' = [c \in Calls |->
                    IF calls[c].pc = "idle" THEN calls[c]
                    ELSE [calls[c] EXCEPT !.sawClear = TRUE]]
    /\ UNCHANGED <<now, lastRequestTime, requestCount, grants, transport>>

\* gameCache.cleanup(), called directly or by the 30-minute interval timer.
Cleanup ==
    /\ cache' = cleanup(cache, now)
    /\ cache' # cache
    /\ UNCHANGED <<now, lastRequestTime, requestCount, calls, grants, transport>>

ShortTick == minInterval \div 2
TickSteps == {ShortTick, CACHE_DURATION}

\* Time passes.  Pending microtasks run first, and a timer fires when it is due.
\* The clock is followed from the first call until the last one has settled.
Tick(d) ==
    /\ calls[1].pc # "idle"
    /\ \E c \in Calls : calls[c].pc # "done"
    /\ \A c \in Calls : calls[c].pc # "granted"
    /\ \A c \in Calls : calls[c].pc = "sleeping" => now + d <= calls[c].wakeAt
    /\ IF d = CACHE_DURATION
       THEN (now - StartTime) \div CACHE_DURATION < MaxLongTicks
       ELSE ((now - StartTime) % CACHE_DURATION) \div ShortTick < MaxShortTicks
    /\ now' = now + d
    /\ UNCHANGED <<lastRequestTime, requestCount, cache, calls, grants, transport>>

\* Mutant of GetStats: the call sweeps the cache before it counts.
GetStatsSweeping ==
    /\ cache' = cleanup(cache, now)
    /\ applied' = [ fn |-> "getStats", arg |-> Undefined,
                    result |-> Returned(Obj([ requestCount |-> Num(requestCount),
                                              cacheStats |-> GameCacheGetStats(cache', now),
                                              lastRequestTime |-> Num(lastRequestTime) ])) ]
    /\ UNCHANGED <<now, lastRequestTime, requestCount, calls, grants, transport, overlap>>

\* steamApi.getStats()
GetStats ==
    /\ applied' = [ fn |-> "getStats", arg |-> Undefined,
                    result |-> Returned(Obj([ requestCount |-> Num(requestCount),
                                              cacheStats |-> GameCacheGetStats(cache, now),
                                              lastRequestTime |-> Num(lastRequestTime) ])) ]
    /\ UNCHANGED <<now, lastRequestTime, requestCount, cache, calls, grants, transport, overlap>>

(***************************************************************************)
(* Spec: MaxCalls calls that interleave freely, one identifier of each     *)
(* kind, and one transport answer of each kind.                            *)
(***************************************************************************)
SomeIds == {IdA, IdInvalid}
SomeThrown == {Thrown("Error", <<"E","C","O","N","N","R","E","S","E","T">>)}
SomeStatuses == {429}
SomeBodies ==
    { Obj([response |-> EmptyObject]),
      Obj([response |-> Obj([game_count |-> Num(2),
                             games |-> Arr(<<Game(730, <<"C","S">>), Game(570, <<"D">>)>>)])]),
      Obj([response |-> Obj([players |-> Arr(<<Player(IdA)>>)])]) }

Next ==
    \/ \E c \in Calls, steamId \in SomeIds, useCache \in BOOLEAN :
          getOwnedGames(c, steamId, useCache) /\ UNCHANGED others
    \/ \E c \in Calls, steamId \in SomeIds :
          getPlayerSummary(c, steamId) /\ UNCHANGED others
    \/ \E c \in Calls : TimerFires(c) /\ UNCHANGED others
    \/ \E c \in Calls : IssueFetch(c) /\ UNCHANGED others
    \/ \E c \in Calls, error \in SomeThrown : FetchRejects(c, error) /\ UNCHANGED others
    \/ \E c \in Calls, status \in SomeStatuses : FetchNotOk(c, status) /\ UNCHANGED others
    \/ \E c \in Calls, error \in ThrownByJson : JsonRejects(c, error) /\ UNCHANGED others
    \/ \E c \in Calls, data \in SomeBodies : JsonResolves(c, data) /\ UNCHANGED others
    \/ Clear /\ UNCHANGED others
    \/ Cleanup /\ UNCHANGED others
    \/ \E d \in TickSteps : Tick(d) /\ UNCHANGED others

Spec == Init /\ [][Next]_vars

(***************************************************************************)
(* SpecTransport: MaxTransportCalls calls that interleave freely, every    *)
(* identifier and every transport answer.                                  *)
(***************************************************************************)
TransportCalls == 1..MaxTransportCalls

NextTransport ==
    \/ \E c \in TransportCalls, steamId \in SteamIds, useCache \in BOOLEAN :
          getOwnedGames(c, steamId, useCache) /\ UNCHANGED others
    \/ \E c \in TransportCalls, steamId \in SteamIds :
          getPlayerSummary(c, steamId) /\ UNCHANGED others
    \/ \E c \in TransportCalls : TimerFires(c) /\ UNCHANGED others
    \/ \E c \in TransportCalls : IssueFetch(c) /\ UNCHANGED others
    \/ \E c \in TransportCalls, error \in ThrownByFetch :
          FetchRejects(c, error) /\ UNCHANGED others
    \/ \E c \in TransportCalls, status \in Statuses :
          FetchNotOk(c, status) /\ UNCHANGED others
    \/ \E c \in TransportCalls, error \in ThrownByJson :
          JsonRejects(c, error) /\ UNCHANGED others
    \/ \E c \in TransportCalls, data \in Bodies :
          JsonResolves(c, data) /\ UNCHANGED others
    \/ Clear /\ UNCHANGED others
    \/ Cleanup /\ UNCHANGED others
    \/ \E d \in TickSteps : Tick(d) /\ UNCHANGED others

SpecTransport == Init /\ [][NextTransport]_vars

(***************************************************************************)
(* SpecOverlap: one findOverlappingGames call, the transport's answers to  *)
(* its getOwnedGames calls, and the getOwnedGames calls other callers make *)
(* before it or while its loop runs.                                       *)
(***************************************************************************)
IdC == Str(<<"7","6","5","6","1","1","9","8","0","0","1","2","3","4","5","6","9">>)

\* The steamIds arguments of findOverlappingGames.
IdLists ==
    { Undefined, JNull, Arr(<<>>), Arr(<<IdA>>), Arr(<<IdInvalid>>),
      Arr(<<IdA, IdB>>), Arr(<<IdA, IdA>>), Arr(<<IdA, IdInvalid>>),
      Arr(<<IdInvalid, IdA>>), Arr(<<IdA, IdB, IdC>>), Arr(<<IdA, IdB, IdA>>) }

Library(games) == Obj([response |-> Obj([game_count |-> Num(Len(games)), games |-> Arr(games)])])

\* The owned-games bodies the transport answers with.
OverlapBodies ==
    { Library(<<Game(730, <<"C","S">>), Game(570, <<"D">>), Game(440, <<"T">>)>>),
      Library(<<Game(570, <<"D">>), Game(730, <<"C","S">>), Game(1086940, <<"B">>)>>),
      Library(<<Game(730, <<"C","S">>), Game(730, <<"C","S">>)>>),
      Library(<<>>),
      Obj([response |-> EmptyObject]) }

\* The identifiers the loop has still to fetch after the awaited one.
OverlapNeeds ==
    IF overlap.pc = "awaiting" THEN Len(overlap.steamIds.v) - overlap.i ELSE 0

\* The calls issued by other callers than the loop.
OtherCalls == MaxCalls - SlotsLeft - Len(overlap.started)

NextOverlap ==
    \/ \E steamIds \in IdLists : findOverlappingGames(steamIds)
    \/ ResumeOverlap
    \/ \E c \in Calls, useCache \in BOOLEAN :
          /\ overlap.pc # "done"
          /\ OtherCalls < MaxOtherCalls
          /\ SlotsLeft > OverlapNeeds
          /\ getOwnedGames(c, IdA, useCache)
          /\ UNCHANGED others
    \/ \E c \in Calls : TimerFires(c) /\ UNCHANGED others
    \/ \E c \in Calls : IssueFetch(c) /\ UNCHANGED others
    \/ \E c \in Calls, error \in SomeThrown : FetchRejects(c, error) /\ UNCHANGED others
    \/ \E c \in Calls, status \in SomeStatuses : FetchNotOk(c, status) /\ UNCHANGED others
    \/ \E c \in Calls, data \in OverlapBodies : JsonResolves(c, data) /\ UNCHANGED others
    \/ \E d \in TickSteps : ~OverlapResumable /\ Tick(d) /\ UNCHANGED others

SpecOverlap == Init /\ [][NextOverlap]_vars

(***************************************************************************)
(* SpecPure: one call of a synchronous method, validateSteamId or          *)
(* processGamesList, on an argument chosen when the run starts.            *)
(***************************************************************************)
NonDigits == {"a", " ", "-", "."}

\* n times the character d.
Run(n, d) == [i \in 1..n |-> d]

\* Strings of up to MaxIdLen digits, and the same with one other character.
StringInputs ==
    {Str(Run(n, d)) : n \in 0..MaxIdLen, d \in {"0", "7", "9"}}
    \cup UNION { {Str([Run(n, "7") EXCEPT ![p] = ch]) : p \in 1..n, ch \in NonDigits} :
                 n \in 1..MaxIdLen }
    \cup {IdA, IdInvalid}

\* Values that are no strings.
NonStringInputs ==
    { JNull, Undefined, Num(0), Num(7), Num(2147483647), Bool(TRUE), Bool(FALSE),
      Arr(<<>>), Arr(<<IdA>>), Arr(<<IdA, IdB>>), Arr(<<Arr(<<IdA>>)>>), Arr(<<Num(7)>>),
      Arr(<<JNull>>), EmptyObject, Obj([steamid |-> IdA]) }

\* Raw game records: appid and name, and any of the optional fields.
OptionalFields ==
    {"playtime_forever", "playtime_2weeks", "has_community_visible_stats", "img_icon_url"}

RawGame(present, playtime, stats) ==
    Obj([ k \in {"appid", "name"} \cup present |->
            CASE k = "appid" -> Num(730)
              [] k = "name" -> Str(<<"C","S">>)
              [] k = "playtime_forever" -> Num(playtime)
              [] k = "playtime_2weeks" -> Num(30)
              [] k = "has_community_visible_stats" -> Bool(stats)
              [] k = "img_icon_url" -> Str(<<"i">>) ])

RawGames ==
    {RawGame(present, playtime, stats) :
        present \in SUBSET OptionalFields, playtime \in {0, 1000}, stats \in BOOLEAN}

GameLists == UNION {{Arr(games) : games \in [1..n -> RawGames]} : n \in 0..MaxGames}

InitPure ==
    /\ applied \in {[NotApplied EXCEPT !.arg = arg] :
                        arg \in StringInputs \cup NonStringInputs \cup GameLists}
    /\ overlap = NoOverlap
    /\ now = StartTime
    /\ lastRequestTime = 0
    /\ requestCount = 0
    /\ cache = [k \in {} |-> Undefined]
    /\ calls = [c \in Calls |-> IdleCall]
    /\ grants = <<>>
    /\ transport = <<>>

\* steamApi.validateSteamId(arg)
ApplyValidateSteamId ==
    /\ applied.fn = "none"
    /\ applied' = [applied EXCEPT !.fn = "validateSteamId",
                                  !.result = Returned(Bool(validateSteamId(applied.arg)))]
    /\ UNCHANGED <<now, lastRequestTime, requestCount, cache, calls, grants, transport, overlap>>

\* steamApi.processGamesList(arg), for an array.
ApplyProcessGamesList ==
    /\ applied.fn = "none"
    /\ applied.arg.t = "array"
    /\ \A i \in 1..Len(applied.arg.v) : ~PropThrows(applied.arg.v[i])
    /\ applied' = [applied EXCEPT !.fn = "processGamesList",
                                  !.result = Returned(processGamesList(applied.arg))]
    /\ UNCHANGED <<now, lastRequestTime, requestCount, cache, calls, grants, transport, overlap>>

NextPure ==
    \/ ApplyValidateSteamId
    \/ ApplyProcessGamesList

SpecPure == InitPure /\ [][NextPure]_vars

(***************************************************************************)
(* SpecCache: MaxCacheCalls successful calls for two identifiers and both  *)
(* request kinds, the clock, and getStats at any point between them.       *)
(***************************************************************************)
CacheCalls == 1..MaxCacheCalls
ValidIds == {IdA, IdB}
CacheBodies ==
    { Obj([response |-> Obj([games |-> Arr(<<Game(730, <<"C","S">>)>>)])]),
      Obj([response |-> Obj([players |-> Arr(<<Player(IdA)>>)])]) }

NextCache ==
    \/ \E c \in CacheCalls, steamId \in ValidIds, useCache \in BOOLEAN :
          getOwnedGames(c, steamId, useCache) /\ UNCHANGED others
    \/ \E c \in CacheCalls, steamId \in ValidIds :
          getPlayerSummary(c, steamId) /\ UNCHANGED others
    \/ \E c \in CacheCalls : TimerFires(c) /\ UNCHANGED others
    \/ \E c \in CacheCalls : IssueFetch(c) /\ UNCHANGED others
    \/ \E c \in CacheCalls, data \in CacheBodies : JsonResolves(c, data) /\ UNCHANGED others
    \/ \E d \in TickSteps : Tick(d) /\ UNCHANGED others
    \/ GetStats

SpecCache == Init /\ [][NextCache]_vars

(***************************************************************************)
(* SpecFailure: the calls and transport answers of SpecTransport with no   *)
(* clear and no sweep, so that only the calls change the cache.            *)
(***************************************************************************)
NextFailure ==
    \/ \E c \in TransportCalls, steamId \in SteamIds, useCache \in BOOLEAN :
          getOwnedGames(c, steamId, useCache) /\ UNCHANGED others
    \/ \E c \in TransportCalls, steamId \in SteamIds :
          getPlayerSummary(c, steamId) /\ UNCHANGED others
    \/ \E c \in TransportCalls : TimerFires(c) /\ UNCHANGED others
    \/ \E c \in TransportCalls : IssueFetch(c) /\ UNCHANGED others
    \/ \E c \in TransportCalls, error \in ThrownByFetch :
          FetchRejects(c, error) /\ UNCHANGED others
    \/ \E c \in TransportCalls, status \in Statuses :
          FetchNotOk(c, status) /\ UNCHANGED others
    \/ \E c \in TransportCalls, error \in ThrownByJson :
          JsonRejects(c, error) /\ UNCHANGED others
    \/ \E c \in TransportCalls, data \in Bodies :
          JsonResolves(c, data) /\ UNCHANGED others
    \/ \E d \in TickSteps : Tick(d) /\ UNCHANGED others

SpecFailure == Init /\ [][NextFailure]_vars

(***************************************************************************)
(* SpecLive: MaxCalls getOwnedGames calls with a clock that runs on to the *)
(* next timer, under the conditions that a due timer fires, a resumed      *)
(* makeRequest issues its transport call and the transport answers.        *)
(***************************************************************************)
\* The event loop idles until the earliest setTimeout of enforceRateLimit is
\* due.
AdvanceToTimer ==
    /\ \E c \in Calls : calls[c].pc = "sleeping"
    /\ \A c \in Calls : calls[c].pc # "granted"
    /\ \E c \in Calls :
          /\ calls[c].pc = "sleeping"
          /\ \A d \in Calls : calls[d].pc = "sleeping" => calls[c].wakeAt <= calls[d].wakeAt
          /\ now < calls[c].wakeAt
          /\ now' = calls[c].wakeAt
    /\ UNCHANGED <<lastRequestTime, requestCount, cache, calls, grants, transport>>

\* The transport answers call c: fetch rejects, or the body arrives.
Answers(c) ==
    \/ \E error \in SomeThrown : FetchRejects(c, error)
    \/ \E data \in SomeBodies : JsonResolves(c, data)

NextLive ==
    \/ \E c \in Calls, steamId \in SomeIds, useCache \in BOOLEAN :
          getOwnedGames(c, steamId, useCache) /\ UNCHANGED others
    \/ \E c \in Calls : TimerFires(c) /\ UNCHANGED others
    \/ \E c \in Calls : IssueFetch(c) /\ UNCHANGED others
    \/ \E c \in Calls : Answers(c) /\ UNCHANGED others
    \/ Tick(ShortTick) /\ UNCHANGED others
    \/ AdvanceToTimer /\ UNCHANGED others

SpecLive ==
    /\ Init
    /\ [][NextLive]_vars
    /\ WF_vars(AdvanceToTimer /\ UNCHANGED others)
    /\ \A c \in Calls :
          /\ WF_vars(TimerFires(c) /\ UNCHANGED others)
          /\ WF_vars(IssueFetch(c) /\ UNCHANGED others)
          /\ WF_vars(Answers(c) /\ UNCHANGED others)

(***************************************************************************)
(* Properties.                                                             *)
(***************************************************************************)
\* The number of transport calls call c has issued.
Fetches(c) == Cardinality({k \in 1..Len(transport) : transport[k] = c})

\* Call c is issued in this step.
IssuedNow(c) == calls[c].pc = "idle" /\ calls'[c].pc # "idle"

\* The cache holds an entry for (steamId, requestType) no older than the TTL.
FreshEntry(steamId, requestType) ==
    LET key == generateKey(steamId, requestType)
    IN  key \in DOMAIN cache /\ now - cache[key].timestamp <= CACHE_DURATION

LimiterUnchanged ==
    /\ requestCount' = requestCount
    /\ lastRequestTime' = lastRequestTime
    /\ grants' = grants
    /\ transport' = transport

\* C1: any two consecutive grants of the rate limiter are at least minInterval
\* (1000/R ms) apart, also for calls issued while earlier calls are suspended
\* in enforceRateLimit.
C1_GrantsSpaced ==
    \A k \in 1..(Len(grants) - 1) : grants[k + 1].at - grants[k].at >= minInterval

\* C2: getOwnedGames(id, useCache = true) with a valid id and a non-expired
\* entry for (id, 'games') returns the cached snapshot at once, with no
\* transport call and with requestCount and lastRequestTime unchanged.
C2_CacheHitTouchesNothing ==
    [][\A c \in Calls :
          ( /\ IssuedNow(c)
            /\ calls'[c].op = "games"
            /\ calls'[c].useCache
            /\ validateSteamId(calls'[c].steamId)
            /\ FreshEntry(calls'[c].steamId, KindGames) )
          => /\ calls'[c].pc = "done"
             /\ calls'[c].outcome =
                   Returned(cache[generateKey(calls'[c].steamId, KindGames)].data)
             /\ LimiterUnchanged]_vars

\* A getOwnedGames call with caching enabled has returned a snapshot without
\* any transport call of its own.
C2_Witness ==
    \E c \in Calls :
        /\ calls[c].pc = "done"
        /\ calls[c].op = "games"
        /\ calls[c].useCache
        /\ calls[c].outcome.kind = "returned"
        /\ Fetches(c) = 0

\* C3: getOwnedGames with an identifier validateSteamId rejects fails with
\* INVALID_STEAM_ID at once; the cache, requestCount and lastRequestTime are
\* unchanged and no transport call is made, then or later.
C3_InvalidIdRejectedFirst ==
    [][\A c \in Calls :
          /\ ( /\ IssuedNow(c)
               /\ calls'[c].op = "games"
               /\ calls'[c].steamId = IdInvalid )
             => /\ calls'[c].pc = "done"
                /\ calls'[c].outcome = Threw(NewError(STEAM_ERRORS.INVALID_STEAM_ID))
                /\ cache' = cache
                /\ LimiterUnchanged
          /\ ( /\ calls[c].op = "games"
               /\ calls[c].steamId = IdInvalid )
             => /\ calls'[c] = calls[c] \/ calls'[c] = [calls[c] EXCEPT !.sawClear = TRUE]
                /\ Fetches(c) = 0]_vars

\* A getOwnedGames call with the invalid identifier has failed in a run in which
\* the cache holds an entry and the limiter has granted a request.
C3_Witness ==
    \E c \in Calls :
        /\ calls[c].pc = "done"
        /\ calls[c].op = "games"
        /\ calls[c].steamId = IdInvalid
        /\ calls[c].outcome.kind = "threw"
        /\ DOMAIN cache # {}
        /\ requestCount > 0

\* The request kinds and the age of the entry under a key.
Kinds == {KindGames, KindProfile}
Age(key) == now - cache[key].timestamp

\* C4: a payload stored at t0 is returned unchanged by get at every time t with
\* t - t0 <= D, t - t0 = D included, and get returns null when t - t0 > D; a
\* getOwnedGames call with caching enabled then goes on to the transport.
C4_GetWithinTtl ==
    \A steamId \in SteamIds, requestType \in Kinds :
        LET key == generateKey(steamId, requestType)
            read == get(cache, steamId, requestType, now)
        IN  key \in DOMAIN cache =>
                /\ Age(key) <= CACHE_DURATION => read.ret = cache[key].data
                /\ Age(key) > CACHE_DURATION => read.ret = JNull

C4_ExpiredMeansFetch ==
    \A c \in Calls :
        LET key == generateKey(calls'[c].steamId, KindGames)
        IN  ( /\ IssuedNow(c)
              /\ calls'[c].op = "games"
              /\ calls'[c].useCache
              /\ key \in DOMAIN cache
              /\ Age(key) > CACHE_DURATION )
            => /\ calls'[c].pc \in {"sleeping", "granted"}
               /\ key \notin DOMAIN cache'

C4_CacheTtl == []C4_GetWithinTtl /\ [][C4_ExpiredMeansFetch]_vars

\* The cache holds an entry whose age is exactly the TTL, get still returns its
\* data, and a caching call has been served that data from the cache.
C4_Witness ==
    \E steamId \in SteamIds :
        LET key == generateKey(steamId, KindGames)
        IN  /\ key \in DOMAIN cache
            /\ Age(key) = CACHE_DURATION
            /\ get(cache, steamId, KindGames, now).ret = cache[key].data
            /\ \E c \in Calls :
                  /\ calls[c].pc = "done"
                  /\ calls[c].useCache
                  /\ Fetches(c) = 0
                  /\ calls[c].outcome = Returned(cache[key].data)

\* The time a returned snapshot was built (its fetchedAt).
FetchedAt(outcome) == outcome.value.v.fetchedAt.v[2]

\* Calls i and j are successful caching getOwnedGames calls for one identifier.
SameLibraryTwice(i, j) ==
    /\ i < j
    /\ calls[i].op = "games" /\ calls[j].op = "games"
    /\ calls[i].useCache /\ calls[j].useCache
    /\ calls[i].steamId = calls[j].steamId
    /\ calls[i].pc = "done" /\ calls[j].pc = "done"
    /\ calls[i].outcome.kind = "returned" /\ calls[j].outcome.kind = "returned"

\* C5 as stated: two caching getOwnedGames calls for the same valid identifier,
\* within the TTL, with no cache clear and a transport that answers
\* successfully, make exactly one transport call in total, also when the second
\* is issued while the first is still suspended.
C5_TwoCallsOneFetch ==
    \A i, j \in Calls :
        ( /\ SameLibraryTwice(i, j)
          /\ Fetches(i) = 1
          /\ ~calls[i].sawClear
          /\ now - FetchedAt(calls[i].outcome) <= CACHE_DURATION )
        => Fetches(i) + Fetches(j) = 1

\* C5 as amended: when the second call is issued after the first has completed
\* with a snapshot, within the TTL of that snapshot and with no cache clear in
\* between, the second call is served from the cache in the step that issues
\* it, so the two calls make exactly one transport call in total.
C5_SecondAfterFirstOneFetch ==
    [][\A i, j \in Calls :
          ( /\ IssuedNow(j)
            /\ calls'[j].op = "games"
            /\ calls'[j].useCache
            /\ calls[i].pc = "done"
            /\ calls[i].op = "games"
            /\ calls[i].useCache
            /\ calls[i].steamId = calls'[j].steamId
            /\ calls[i].outcome.kind = "returned"
            /\ Fetches(i) = 1
            /\ ~calls[i].sawClear
            /\ now - FetchedAt(calls[i].outcome) <= CACHE_DURATION )
          => /\ calls'[j].pc = "done"
             /\ calls'[j].outcome.kind = "returned"
             /\ transport' = transport
             /\ Fetches(i) + Fetches(j) = 1]_vars

\* Two caching calls for one identifier have both returned the same snapshot;
\* the first fetched it and the second made no transport call.
C5_Witness ==
    \E i, j \in Calls :
        /\ SameLibraryTwice(i, j)
        /\ Fetches(i) = 1
        /\ Fetches(j) = 0
        /\ calls[j].outcome = calls[i].outcome

\* The position of call c's transport call among the transport calls (0: none).
FetchIndex(c) ==
    IF Fetches(c) = 0 THEN 0 ELSE CHOOSE k \in 1..Len(transport) : transport[k] = c

\* C6: a getOwnedGames(id, useCache = false) call with a valid identifier
\* never settles without exactly one transport call of its own, whatever the
\* cache holds for (id, 'games'); it makes none before the limiter's grant.
C6_CacheBypassAlwaysFetches ==
    \A c \in Calls :
        ( /\ calls[c].op = "games"
          /\ ~calls[c].useCache
          /\ calls[c].steamId # IdInvalid )
        => /\ calls[c].pc \in {"sleeping", "granted"} => Fetches(c) = 0
           /\ calls[c].pc \in {"fetching", "done"} => Fetches(c) = 1

\* Two successful getOwnedGames calls for one identifier, the later one with
\* caching disabled, have made one transport call each, the earlier one first,
\* and no cache clear happened since the earlier one was issued.
C6_Witness ==
    \E d, c \in Calls :
        /\ d < c
        /\ calls[d].op = "games" /\ calls[c].op = "games"
        /\ calls[d].steamId = calls[c].steamId
        /\ ~calls[c].useCache
        /\ calls[d].pc = "done" /\ calls[c].pc = "done"
        /\ calls[d].outcome.kind = "returned" /\ calls[c].outcome.kind = "returned"
        /\ ~calls[d].sawClear
        /\ Fetches(d) = 1 /\ Fetches(c) = 1
        /\ FetchIndex(d) < FetchIndex(c)
        /\ FetchedAt(calls[d].outcome) < FetchedAt(calls[c].outcome)

\* Call c has failed with an Error whose message is the given kind.
FailedWith(c, kind) ==
    /\ calls[c].pc = "done"
    /\ calls[c].outcome.kind = "threw"
    /\ calls[c].outcome.error.name = "Error"
    /\ calls[c].outcome.error.hasMessage
    /\ calls[c].outcome.error.message = kind

\* C7: a call whose transport answered with a non-ok response fails with
\* RATE_LIMIT_EXCEEDED for status 429, PRIVATE_PROFILE for status 403 and
\* API_UNAVAILABLE for every other status.
C7_StatusToErrorKind ==
    \A c \in Calls :
        (calls[c].pc = "done" /\ calls[c].answer.kind = "status")
        => LET status == calls[c].answer.status
           IN  /\ status = 429 => FailedWith(c, STEAM_ERRORS.RATE_LIMIT_EXCEEDED)
               /\ status = 403 => FailedWith(c, STEAM_ERRORS.PRIVATE_PROFILE)
               /\ status \notin {429, 403} => FailedWith(c, STEAM_ERRORS.API_UNAVAILABLE)

\* A getOwnedGames call answered 403 and a getPlayerSummary call answered 500
\* have both failed.
C7_Witness ==
    \E c, d \in Calls :
        /\ calls[c].op = "games" /\ calls[d].op = "profile"
        /\ calls[c].pc = "done" /\ calls[d].pc = "done"
        /\ calls[c].answer = [kind |-> "status", status |-> 403]
        /\ calls[d].answer = [kind |-> "status", status |-> 500]
        /\ calls[c].outcome.kind = "threw" /\ calls[d].outcome.kind = "threw"

\* C8: whenever fetch() itself rejects, whatever the thrown value's name or
\* message, the call fails with NETWORK_ERROR.
C8_ThrownMeansNetworkError ==
    \A c \in Calls :
        (calls[c].pc = "done" /\ calls[c].answer.kind = "rejected")
        => FailedWith(c, STEAM_ERRORS.NETWORK_ERROR)

\* The five error kinds of STEAM_ERRORS.
ErrorKinds ==
    { STEAM_ERRORS.INVALID_STEAM_ID, STEAM_ERRORS.PRIVATE_PROFILE,
      STEAM_ERRORS.RATE_LIMIT_EXCEEDED, STEAM_ERRORS.API_UNAVAILABLE,
      STEAM_ERRORS.NETWORK_ERROR }

\* C9: every failure of getOwnedGames or getPlayerSummary, for every transport
\* outcome, carries one of the five kinds of STEAM_ERRORS.
C9_ClosedErrorTaxonomy ==
    \A c \in Calls :
        (calls[c].pc = "done" /\ calls[c].outcome.kind = "threw")
        => \E kind \in ErrorKinds : FailedWith(c, kind)

\* The payload is an object without a response object, or its response object
\* has no games collection.
LacksGames(data) ==
    /\ data.t = "object"
    /\ \/ "response" \notin DOMAIN data.v
       \/ "games" \notin DOMAIN data.v.response.v

\* C10: when the transport returns an ok response whose payload has no
\* response object or no games collection, getOwnedGames fails with
\* PRIVATE_PROFILE and the cache is left as it was.
C10_NoGamesIsPrivateProfile ==
    [][\A c \in Calls :
          ( /\ calls[c].pc = "fetching"
            /\ calls'[c].pc = "done"
            /\ calls[c].op = "games"
            /\ calls'[c].answer.kind = "body"
            /\ LacksGames(calls'[c].answer.data) )
          => /\ calls'[c].outcome = Threw(NewError(STEAM_ERRORS.PRIVATE_PROFILE))
             /\ cache' = cache]_vars

\* A getOwnedGames call answered { response: {} } has failed with
\* PRIVATE_PROFILE while the cache holds another call's entry.
C10_Witness ==
    \E c \in Calls :
        /\ calls[c].op = "games"
        /\ calls[c].answer = [kind |-> "body", data |-> Obj([response |-> EmptyObject])]
        /\ FailedWith(c, STEAM_ERRORS.PRIVATE_PROFILE)
        /\ DOMAIN cache # {}

\* Call c's getOwnedGames completes successfully through the transport in this
\* step.
FetchedNow(c) ==
    /\ calls[c].pc = "fetching"
    /\ calls'[c].pc = "done"
    /\ calls'[c].op = "games"
    /\ calls'[c].outcome.kind = "returned"

\* C11: when getOwnedGames completes successfully through the transport, with
\* caching enabled or disabled, the cache then holds under (id, 'games') exactly
\* the snapshot returned, stamped with the current time, in place of any
\* previous entry (the other entries are untouched), and a cache read for a
\* caching getOwnedGames call issued right after yields that same snapshot.
C11_SuccessIsCached ==
    [][\A c \in Calls :
          FetchedNow(c) =>
             LET steamId == calls'[c].steamId
                 key == generateKey(steamId, KindGames)
                 snapshot == calls'[c].outcome.value
             IN  /\ DOMAIN cache' = DOMAIN cache \cup {key}
                 /\ cache'[key] = [data |-> snapshot, timestamp |-> now]
                 /\ \A k \in DOMAIN cache \ {key} : cache'[k] = cache[k]
                 /\ snapshot.v.steamId = steamId
                 /\ FetchedAt(calls'[c].outcome) = now
                 /\ get(cache', steamId, KindGames, now').ret = snapshot]_vars

\* A call with caching disabled has fetched a snapshot that replaced the older
\* entry an earlier call had stored, and a caching call issued after it has
\* been served the new snapshot from the cache.
C11_Witness ==
    \E d, c, e \in Calls :
        LET key == generateKey(calls[c].steamId, KindGames)
        IN  /\ d < c /\ c < e
            /\ calls[d].op = "games" /\ calls[c].op = "games" /\ calls[e].op = "games"
            /\ calls[d].steamId = calls[c].steamId /\ calls[e].steamId = calls[c].steamId
            /\ calls[d].pc = "done" /\ calls[c].pc = "done" /\ calls[e].pc = "done"
            /\ calls[d].outcome.kind = "returned" /\ calls[c].outcome.kind = "returned"
            /\ ~calls[c].useCache /\ calls[e].useCache
            /\ Fetches(d) = 1 /\ Fetches(c) = 1 /\ Fetches(e) = 0
            /\ FetchedAt(calls[d].outcome) < FetchedAt(calls[c].outcome)
            /\ key \in DOMAIN cache
            /\ cache[key].data = calls[c].outcome.value
            /\ calls[e].outcome = calls[c].outcome

\* C16: the rate limiter grants in the order the calls were issued: a call that
\* entered enforceRateLimit earlier (calls are numbered in issue order, and a
\* call enters the limiter in the step that issues it) is granted earlier and
\* its transport call is issued earlier, for every interleaving of suspended
\* callers and timer expiries.
C16_GrantsInCallOrder ==
    /\ \A k, l \in 1..Len(grants) : k < l => grants[k].call < grants[l].call
    /\ \A k, l \in 1..Len(transport) : k < l => transport[k] < transport[l]

\* The argument is absent, empty or a list of one identifier.
FewerThanTwo(steamIds) ==
    \/ steamIds.t \in {"undefined", "null"}
    \/ steamIds.t = "array" /\ Len(steamIds.v) <= 1

\* findOverlappingGames is called in this step.
OverlapCalledNow == overlap.pc = "idle" /\ overlap'.pc # "idle"

\* C12: findOverlappingGames called with an absent list, an empty list or a
\* list of one identifier fails with the 'At least 2 Steam IDs required' error
\* in the step of the call, before any getOwnedGames call: the cache, the
\* limiter and the transport are untouched, then and afterwards.
C12_TooFewIdsRejectedFirst ==
    [][/\ (OverlapCalledNow /\ FewerThanTwo(overlap'.steamIds))
          => /\ overlap'.pc = "done"
             /\ overlap'.outcome = Threw(NewError(TooFewIds))
             /\ Includes(overlap'.outcome.error.message,
                         <<"A","t"," ","l","e","a","s","t"," ","2"," ","S","t","e","a","m"," ",
                           "I","D","s"," ","r","e","q","u","i","r","e","d">>)
             /\ overlap'.started = <<>>
             /\ calls' = calls
             /\ cache' = cache
             /\ LimiterUnchanged
       /\ (overlap.pc = "done" /\ FewerThanTwo(overlap.steamIds))
          => overlap' = overlap]_vars

\* findOverlappingGames called with one valid identifier has failed, in a run
\* in which another caller's getOwnedGames has filled the cache before.
C12_Witness ==
    /\ overlap.pc = "done"
    /\ overlap.steamIds = Arr(<<IdA>>)
    /\ overlap.outcome.kind = "threw"
    /\ overlap.started = <<>>
    /\ DOMAIN cache # {}
    /\ requestCount = 1

\* The library the loop's k-th getOwnedGames call returned, and its application
\* ids.
GamesOf(k) == calls[overlap.started[k]].outcome.value.v.games.v
AppIdsOf(k) == {GamesOf(k)[j].v.appid : j \in 1..Len(GamesOf(k))}

\* findOverlappingGames has returned and each of its getOwnedGames calls did.
AllFetched ==
    /\ overlap.pc = "done"
    /\ overlap.outcome.kind = "returned"
    /\ Len(overlap.started) = Len(overlap.steamIds.v)
    /\ \A k \in 1..Len(overlap.started) :
          calls[overlap.started[k]].outcome.kind = "returned"

\* C13: for N >= 2 identifiers whose libraries are all fetched,
\* findOverlappingGames returns exactly the games of the first library whose
\* application id occurs in every one of the N libraries, in the order of the
\* first library, each record carrying ownedBy = N.
C13_OverlapIsIntersection ==
    AllFetched =>
        LET N == Len(overlap.steamIds.v)
            inAll(game) == \A k \in 1..N : game.v.appid \in AppIdsOf(k)
            common == SelectSeq(GamesOf(1), inAll)
            result == overlap.outcome.value.v
        IN  /\ N >= 2
            /\ Len(result) = Len(common)
            /\ \A i \in 1..Len(common) :
                  /\ result[i].v.appId = common[i].v.appid
                  /\ result[i].v.name = common[i].v.name
                  /\ result[i].v.ownedBy = Num(N)

\* Three libraries have been fetched; the first lists three games, two of
\* them are in all three libraries and make the result.
C13_Witness ==
    /\ AllFetched
    /\ Len(overlap.steamIds.v) = 3
    /\ Len(GamesOf(1)) = 3
    /\ GamesOf(2) # GamesOf(1)
    /\ Len(overlap.outcome.value.v) = 2

\* The loop's k-th getOwnedGames call failed.
FailedAt(k) == calls[overlap.started[k]].outcome.kind = "threw"

\* C14: if getOwnedGames fails for one (or more) of the N >= 2 identifiers,
\* whatever its position and the error kind, findOverlappingGames does not
\* raise, still calls getOwnedGames for every identifier in turn, records an
\* empty library for each failed identifier, and returns the empty sequence.
C14_FailedLibraryGivesEmpty ==
    (overlap.pc = "done" /\ ~FewerThanTwo(overlap.steamIds)) =>
        LET N == Len(overlap.steamIds.v)
        IN  /\ overlap.outcome.kind = "returned"
            /\ Len(overlap.started) = N
            /\ Len(overlap.libraries) = N
            /\ \A k \in 1..N :
                  /\ calls[overlap.started[k]].steamId = overlap.steamIds.v[k]
                  /\ overlap.libraries[k].steamId = overlap.steamIds.v[k]
                  /\ FailedAt(k) => overlap.libraries[k].games = Arr(<<>>)
            /\ (\E k \in 1..N : FailedAt(k)) => overlap.outcome = Returned(Arr(<<>>))

\* Of three identifiers the second has failed with RATE_LIMIT_EXCEEDED, the
\* first and the third library were fetched after it and have a game in common,
\* and findOverlappingGames has returned the empty sequence.
C14_Witness ==
    /\ overlap.pc = "done"
    /\ ~FewerThanTwo(overlap.steamIds)
    /\ Len(overlap.steamIds.v) = 3
    /\ Len(overlap.started) = 3
    /\ ~FailedAt(1) /\ FailedAt(2) /\ ~FailedAt(3)
    /\ FailedWith(overlap.started[2], STEAM_ERRORS.RATE_LIMIT_EXCEEDED)
    /\ AppIdsOf(1) \cap AppIdsOf(3) # {}
    /\ overlap.outcome = Returned(Arr(<<>>))

\* C15: the result of findOverlappingGames holds one record per surviving
\* game: no application id is in two records of the result, also when the
\* first library lists an application id more than once.
C15_OneRecordPerGame ==
    (overlap.pc = "done" /\ overlap.outcome.kind = "returned") =>
        LET result == overlap.outcome.value.v
        IN  \A i, j \in 1..Len(result) :
                result[i].v.appId = result[j].v.appId => i = j

\* The time of call c's grant, which is the time of its transport call (the
\* fetch is issued in the microtask that follows the grant).
GrantAt(c) == grants[CHOOSE k \in 1..Len(grants) : grants[k].call = c].at

\* C17: during one findOverlappingGames call, the getOwnedGames call for the
\* next identifier starts only after the one before has settled (so at most
\* one is in flight), the calls are made in the order of the identifier list,
\* and the transport calls the loop makes are in that order and at least
\* minInterval (1000/R ms) apart, whatever other callers do meanwhile.
C17_LoopFetchesOneAtATime ==
    LET started == overlap.started
    IN  /\ \A k \in 1..Len(started) :
              /\ calls[started[k]].steamId = overlap.steamIds.v[k]
              /\ k < Len(started) => calls[started[k]].pc = "done"
        /\ \A k, l \in 1..Len(started) :
              (k < l /\ Fetches(started[k]) = 1 /\ Fetches(started[l]) = 1)
              => /\ FetchIndex(started[k]) < FetchIndex(started[l])
                 /\ GrantAt(started[l]) - GrantAt(started[k]) >= minInterval

\* The loop has made two transport calls exactly minInterval apart while
\* another caller's getOwnedGames made a transport call of its own.
C17_Witness ==
    /\ Len(overlap.started) = 2
    /\ Fetches(overlap.started[1]) = 1
    /\ Fetches(overlap.started[2]) = 1
    /\ GrantAt(overlap.started[2]) - GrantAt(overlap.started[1]) = minInterval
    /\ \E c \in Calls :
          /\ \A k \in 1..2 : overlap.started[k] # c
          /\ Fetches(c) = 1

\* validateSteamId has been called and has returned b.
Validated(b) ==
    /\ applied.fn = "validateSteamId"
    /\ applied.result = Returned(Bool(b))

\* C18: for every string s, validateSteamId(s) is true if and only if s is
\* exactly 17 characters, each of them a decimal digit.
C18_SeventeenDigitsExactly ==
    (applied.fn = "validateSteamId" /\ applied.arg.t = "string") =>
        Validated(applied.arg.v \in
                      [1..17 -> {"0", "1", "2", "3", "4", "5", "6", "7", "8", "9"}])

\* validateSteamId has accepted a string of seventeen digits.
C18_Witness ==
    /\ applied.arg.t = "string"
    /\ Len(applied.arg.v) = 17
    /\ Validated(TRUE)

\* C19: for every input that is not a string (null, undefined, a number, an
\* array, an object), validateSteamId returns false, also when the string
\* conversion of the value is 17 decimal digits.
C19_NonStringsRejected ==
    (applied.fn = "validateSteamId" /\ applied.arg.t # "string") => Validated(FALSE)

\* The value processGamesList gives for an optional raw field.
Copied(raw, field, default) ==
    IF field \in DOMAIN raw THEN raw[field] ELSE default

\* processGamesList has been called on a list of raw game records.
Processed ==
    /\ applied.fn = "processGamesList"
    /\ applied.arg \in GameLists

C20_Normalised ==
    Processed =>
        /\ applied.result.kind = "returned"
        /\ applied.result.value.t = "array"
        /\ Len(applied.result.value.v) = Len(applied.arg.v)
        /\ \A i \in 1..Len(applied.arg.v) :
              LET raw == applied.arg.v[i].v
                  game == applied.result.value.v[i].v
              IN  /\ game.appId = raw.appid
                  /\ game.name = raw.name
                  /\ game.playtimeForever = Copied(raw, "playtime_forever", Num(0))
                  /\ game.playtime2Weeks = Copied(raw, "playtime_2weeks", Num(0))
                  /\ game.hasPublicStatsSupport =
                        Copied(raw, "has_community_visible_stats", Bool(FALSE))
                  /\ game.imgIconUrl = Copied(raw, "img_icon_url", Undefined)

C20_StateUntouched ==
    (applied'.fn = "processGamesList" /\ applied.fn = "none") =>
        UNCHANGED <<now, lastRequestTime, requestCount, cache, calls, grants, transport>>

\* C20: processGamesList maps a raw games sequence to a sequence of the same
\* length and order whose records keep appid and name (as appId, name), copy
\* the playtime and stats fields that are present, and have playtimeForever 0,
\* playtime2Weeks 0 and hasPublicStatsSupport false where the raw field is
\* missing; the call changes no state of the client or the cache.
C20_ProcessGamesList == []C20_Normalised /\ [][C20_StateUntouched]_vars

\* processGamesList has mapped a list of two records, the first without any
\* optional field, the second with playtime 1000 and the stats flag set.
C20_Witness ==
    /\ Processed
    /\ Len(applied.arg.v) = 2
    /\ DOMAIN applied.arg.v[1].v = {"appid", "name"}
    /\ applied.result.value.v[1].v.playtimeForever = Num(0)
    /\ applied.result.value.v[1].v.hasPublicStatsSupport = Bool(FALSE)
    /\ DOMAIN applied.arg.v[2].v = {"appid", "name"} \cup OptionalFields
    /\ applied.result.value.v[2].v.playtimeForever = Num(1000)
    /\ applied.result.value.v[2].v.hasPublicStatsSupport = Bool(TRUE)

\* Call c's transport call is answered in this step.
SettledNow(c) == calls[c].pc = "fetching" /\ calls'[c].pc = "done"

\* The payload holds no profile record.
NoPlayers(data) ==
    /\ data.t = "object"
    /\ "response" \in DOMAIN data.v
    /\ "players" \in DOMAIN data.v.response.v
    /\ data.v.response.v.players = Arr(<<>>)

\* C21: getPlayerSummary follows the pipeline of getOwnedGames under cache
\* kind 'profile': an invalid identifier fails with INVALID_STEAM_ID before any
\* cache or transport access; a non-expired (id,'profile') entry is returned
\* with no transport call; an ok response with zero profile records fails with
\* INVALID_STEAM_ID and caches nothing; a successful response is stored under
\* (id,'profile').
C21_ProfilePipeline ==
    [][\A c \in Calls :
          LET steamId == calls'[c].steamId
              key == generateKey(steamId, KindProfile)
          IN  /\ (IssuedNow(c) /\ calls'[c].op = "profile" /\ steamId = IdInvalid)
                 => /\ calls'[c].pc = "done"
                    /\ calls'[c].outcome = Threw(NewError(STEAM_ERRORS.INVALID_STEAM_ID))
                    /\ cache' = cache
                    /\ LimiterUnchanged
              /\ ( /\ IssuedNow(c) /\ calls'[c].op = "profile"
                   /\ steamId # IdInvalid
                   /\ FreshEntry(steamId, KindProfile) )
                 => /\ calls'[c].pc = "done"
                    /\ calls'[c].outcome = Returned(cache[key].data)
                    /\ cache' = cache
                    /\ LimiterUnchanged
              /\ ( /\ SettledNow(c) /\ calls[c].op = "profile"
                   /\ calls'[c].answer.kind = "body"
                   /\ NoPlayers(calls'[c].answer.data) )
                 => /\ calls'[c].outcome = Threw(NewError(STEAM_ERRORS.INVALID_STEAM_ID))
                    /\ cache' = cache
              /\ ( /\ SettledNow(c) /\ calls[c].op = "profile"
                   /\ calls'[c].outcome.kind = "returned" )
                 => /\ DOMAIN cache' = DOMAIN cache \cup {key}
                    /\ cache'[key] = [data |-> calls'[c].outcome.value, timestamp |-> now]
                    /\ \A k \in DOMAIN cache \ {key} : cache'[k] = cache[k]]_vars

\* A getPlayerSummary call has fetched a profile and a later one for the same
\* identifier has been served that profile from the cache, which holds it
\* under (id,'profile').
C21_Witness ==
    \E d, c \in Calls :
        LET key == generateKey(calls[c].steamId, KindProfile)
        IN  /\ d < c
            /\ calls[d].op = "profile" /\ calls[c].op = "profile"
            /\ calls[d].steamId = calls[c].steamId
            /\ calls[d].pc = "done" /\ calls[c].pc = "done"
            /\ calls[d].outcome.kind = "returned"
            /\ calls[c].outcome = calls[d].outcome
            /\ Fetches(d) = 1 /\ Fetches(c) = 0
            /\ key \in DOMAIN cache
            /\ cache[key].data = calls[c].outcome.value

\* getStats is called in this step, and what it returns.
StatsCalledNow == applied' # applied /\ applied'.fn = "getStats"
Stats == applied.result.value.v

\* The entries of the cache that are older than the TTL.
ExpiredKeys == {k \in DOMAIN cache : Age(k) > CACHE_DURATION}

\* C22: getStats has no side effects: called at any time, also when the cache
\* holds expired entries, it leaves the cache, requestCount and
\* lastRequestTime unchanged, and the requestCount and lastRequestTime it
\* reports are the client's current ones.
C22_GetStatsReadsOnly ==
    [][StatsCalledNow =>
          /\ cache' = cache
          /\ requestCount' = requestCount
          /\ lastRequestTime' = lastRequestTime
          /\ calls' = calls
          /\ applied'.result.kind = "returned"
          /\ applied'.result.value.v.requestCount = Num(requestCount)
          /\ applied'.result.value.v.lastRequestTime = Num(lastRequestTime)]_vars

\* getStats has reported an expired entry, and the cache still holds it.
C22_Witness ==
    /\ applied.fn = "getStats"
    /\ Stats.cacheStats.v.expiredEntries = Num(1)
    /\ Stats.requestCount = Num(requestCount)
    /\ requestCount >= 1
    /\ Cardinality(ExpiredKeys) = 1

\* The counts in a value GameCache.getStats returned agree with the cache at
\* the current time.
CountsAgree(cacheStats) ==
    /\ cacheStats.totalEntries = Num(Cardinality(DOMAIN cache))
    /\ cacheStats.expiredEntries = Num(Cardinality(ExpiredKeys))
    /\ cacheStats.validEntries = Num(Cardinality(DOMAIN cache \ ExpiredKeys))
    /\ cacheStats.totalEntries.v = cacheStats.validEntries.v + cacheStats.expiredEntries.v
    /\ cacheStats.cacheDuration = Num(CACHE_DURATION)

C26_CountsNow == CountsAgree(GameCacheGetStats(cache, now).v)

C26_CountsWhenCalled ==
    StatsCalledNow => CountsAgree(applied'.result.value.v.cacheStats.v)

\* C26: at every call the cache's getStats reports totalEntries = validEntries
\* + expiredEntries, an entry counting as expired exactly when now - timestamp
\* > D at the time of the call; the split is computed from the current time, so
\* that an entry reported valid by one call is reported expired by a later one
\* once its age exceeds D, with no cache operation in between.
C26_StatsAreLive == []C26_CountsNow /\ [][C26_CountsWhenCalled]_vars

\* getStats reported the one entry ever stored as valid; time has passed with
\* no cache operation, and getStats would now report that entry as expired.
C26_Witness ==
    /\ applied.fn = "getStats"
    /\ Stats.cacheStats.v.validEntries = Num(1)
    /\ Stats.cacheStats.v.expiredEntries = Num(0)
    /\ Len(transport) = 1
    /\ Cardinality(DOMAIN cache) = 1
    /\ GameCacheGetStats(cache, now).v.expiredEntries = Num(1)
    /\ GameCacheGetStats(cache, now).v.validEntries = Num(0)

\* The cache kind of call c, and what a read of (steamId, requestType) gives
\* from cache m at the current time.
KindOf(c) == IF calls'[c].op = "games" THEN KindGames ELSE KindProfile
Lookup(m, steamId, requestType) == get(m, steamId, requestType, now).ret

\* C23: entries of kind 'games' and of kind 'profile' never collide: for valid
\* identifiers a and b, a step in which a call writes or evicts the entry
\* (a, kind) changes what get returns for no other pair (b, kind2), be it the
\* other kind of the same identifier or the same kind of another identifier.
C23_KeysNeverCollide ==
    [][\A c \in Calls :
          calls'[c] # calls[c] =>
             \A b \in ValidIds, kind \in Kinds :
                 <<b, kind>> # <<calls'[c].steamId, KindOf(c)>>
                 => /\ generateKey(b, kind) # generateKey(calls'[c].steamId, KindOf(c))
                    /\ Lookup(cache', b, kind) = Lookup(cache, b, kind)]_vars

\* The cache holds a library and a profile for one identifier, each under its
\* own key, and get returns each for its kind.
C23_Witness ==
    \E a \in ValidIds :
        /\ generateKey(a, KindGames) \in DOMAIN cache
        /\ generateKey(a, KindProfile) \in DOMAIN cache
        /\ "games" \in DOMAIN cache[generateKey(a, KindGames)].data.v
        /\ "personaName" \in DOMAIN cache[generateKey(a, KindProfile)].data.v

\* Cache `after` is cache `before` but for the entry under key, which is
\* deleted when it was expired and kept as it was otherwise.
OnlyExpiredDeleted(before, after, key) ==
    /\ DOMAIN after \subseteq DOMAIN before
    /\ \A k \in DOMAIN before \ {key} : k \in DOMAIN after /\ after[k] = before[k]
    /\ key \in DOMAIN before =>
          IF now - before[key].timestamp > CACHE_DURATION
          THEN key \notin DOMAIN after
          ELSE key \in DOMAIN after /\ after[key] = before[key]

\* get on any pair, from the current state.
C27_GetNow ==
    \A steamId \in ValidIds, kind \in Kinds :
        OnlyExpiredDeleted(cache, get(cache, steamId, kind, now).cache,
                           generateKey(steamId, kind))

\* The get of a call that reads the cache, in the step that issues the call.
C27_GetWhenCalled ==
    \A c \in Calls :
        IssuedNow(c) /\ calls'[c].useCache
        => OnlyExpiredDeleted(cache, cache', generateKey(calls'[c].steamId, KindOf(c)))

\* C27: GameCache.get changes the cache only by deleting the entry it looked
\* up when that entry is expired: a get that hits a non-expired entry or finds
\* no entry leaves the whole cache unchanged, the hit entry's timestamp
\* included, and no get alters an entry under another key.
C27_GetOnlyEvictsItsKey == []C27_GetNow /\ [][C27_GetWhenCalled]_vars

\* A call was answered from an entry stored earlier, and the entry still
\* carries the time it was stored at.
C27_Witness ==
    \E c \in Calls :
        /\ calls[c].pc = "done"
        /\ calls[c].outcome.kind = "returned"
        /\ Fetches(c) = 0
        /\ LET key == generateKey(calls[c].steamId,
                                  IF calls[c].op = "games" THEN KindGames ELSE KindProfile)
           IN  key \in DOMAIN cache /\ cache[key].timestamp < now

\* Call c enters enforceRateLimit in this step; enforceRateLimit returns to
\* call c in this step.
EntersLimiter(c) == IssuedNow(c) /\ calls'[c].pc # "done"
LimiterReturns(c) == calls[c].pc \in {"idle", "sleeping"} /\ calls'[c].pc = "granted"

\* C24: enforceRateLimit suspends its caller for exactly minInterval - elapsed
\* ms when the time elapsed since lastRequestTime is below minInterval, and
\* not at all otherwise; when it returns, lastRequestTime is the time of that
\* return; lastRequestTime never decreases.
C24_LimiterWaitsAndStamps ==
    [][/\ \A c \in Calls :
            /\ EntersLimiter(c) =>
                  LET elapsed == now - lastRequestTime
                  IN  IF elapsed < minInterval
                      THEN /\ calls'[c].pc = "sleeping"
                           /\ calls'[c].wakeAt - now = minInterval - elapsed
                           /\ lastRequestTime' = lastRequestTime
                      ELSE LimiterReturns(c)
            /\ LimiterReturns(c) =>
                  /\ lastRequestTime' = now'
                  /\ now' = now
                  /\ calls[c].pc = "sleeping" => now = calls[c].wakeAt
            /\ calls[c].pc = "sleeping" => now' <= calls[c].wakeAt
       /\ lastRequestTime' >= lastRequestTime]_vars

\* A call that was suspended has been granted at the time its wait ended, and
\* lastRequestTime is that time.
C24_Witness ==
    \E c \in Calls :
        /\ calls[c].pc \in {"granted", "fetching", "done"}
        /\ calls[c].wakeAt > 0
        /\ \E k \in 1..Len(grants) : grants[k].call = c /\ grants[k].at = calls[c].wakeAt
        /\ lastRequestTime = calls[c].wakeAt
        /\ \E k \in 1..Len(grants) : calls[c].wakeAt - grants[k].at = minInterval

\* Cache `after` is cache `before` without the entries older than D, and get
\* returns from it what it returns from `before`.
Swept(before, after) ==
    /\ DOMAIN after = {k \in DOMAIN before : now - before[k].timestamp <= CACHE_DURATION}
    /\ \A k \in DOMAIN after : after[k] = before[k]
    /\ \A steamId \in SteamIds, kind \in Kinds :
          Lookup(after, steamId, kind) = Lookup(before, steamId, kind)

\* A sweep from the current state.
C25_SweepNow == Swept(cache, cleanup(cache, now))

\* The step of a sweep that finds something to remove.
C25_SweepWhenRun == Cleanup => Swept(cache, cache')

\* C25: cleanup, run at any point between other operations, removes exactly
\* the entries whose age exceeds D and leaves every entry of age <= D in place
\* with payload and timestamp unchanged; it never turns a cache hit into a
\* miss.
C25_SweepRemovesExpiredOnly == []C25_SweepNow /\ [][C25_SweepWhenRun]_vars

\* Two calls stored their results under different keys; the older entry has
\* been swept (the cache was not cleared and no call read its key) and the
\* younger one, of age exactly D, is still there.
C25_Witness ==
    \E c, d \in Calls :
        /\ calls[c].pc = "done" /\ calls[d].pc = "done"
        /\ calls[c].outcome.kind = "returned" /\ calls[d].outcome.kind = "returned"
        /\ Fetches(c) = 1 /\ Fetches(d) = 1
        /\ ~calls[c].sawClear
        /\ LET keyOf(x) == generateKey(calls[x].steamId,
                                       IF calls[x].op = "games" THEN KindGames ELSE KindProfile)
           IN  /\ keyOf(c) # keyOf(d)
               /\ keyOf(c) \notin DOMAIN cache
               /\ keyOf(d) \in DOMAIN cache
               /\ Age(keyOf(d)) = CACHE_DURATION

\* getOwnedGames call c was answered a payload with a response object; the
\* response object of that payload.
AnsweredResponse(c) ==
    /\ calls[c].pc = "done"
    /\ calls[c].op = "games"
    /\ calls[c].answer.kind = "body"
    /\ ~PropThrows(calls[c].answer.data)
    /\ Truthy(Prop(calls[c].answer.data, "response"))
ResponseOf(c) == Prop(calls[c].answer.data, "response")

KeyOf(c) ==
    generateKey(calls[c].steamId, IF calls[c].op = "games" THEN KindGames ELSE KindProfile)
Failed(c) == calls[c].pc = "done" /\ calls[c].outcome.kind = "threw"
FailsNow(c) ==
    calls[c].pc # "done" /\ calls'[c].pc = "done" /\ calls'[c].outcome.kind = "threw"

\* C29 as stated: a call that fails leaves the cache exactly as it was, so
\* that when one call has stored its result and the only other call made has
\* failed, the stored entry is still in the cache.
C29_FailedCallLeavesCache ==
    \A c, d \in Calls :
        ( /\ c # d
          /\ Failed(c)
          /\ calls[d].pc = "done" /\ calls[d].outcome.kind = "returned" /\ Fetches(d) = 1
          /\ \A e \in Calls \ {c, d} : calls[e].pc = "idle" )
        => KeyOf(d) \in DOMAIN cache

\* C29 as amended: the step in which a getOwnedGames or getPlayerSummary call
\* fails (invalid identifier, thrown transport error, non-ok status, payload
\* lacking games or players) leaves the cache unchanged, and so does every
\* step of a call between its cache read and its settling; the step that
\* issues a call changes the cache at most by evicting the expired entry under
\* the call's own key, and not at all with useCache = false.
C29_FailureKeepsCache ==
    [][\A c \in Calls :
          /\ FailsNow(c) => cache' = cache
          /\ IssuedNow(c) =>
                IF calls'[c].useCache
                THEN \/ cache' = cache
                     \/ OnlyExpiredDeleted(cache, cache',
                                           generateKey(calls'[c].steamId, KindOf(c)))
                ELSE cache' = cache
          /\ ( /\ calls'[c] # calls[c]
               /\ ~IssuedNow(c)
               /\ calls'[c].pc # "done" )
             => cache' = cache]_vars

\* A getOwnedGames call with useCache = false has failed after a transport
\* call, and the fresh entry for its identifier is still in the cache.
C29_Witness ==
    \E c \in Calls :
        /\ Failed(c)
        /\ calls[c].op = "games"
        /\ ~calls[c].useCache
        /\ Fetches(c) = 1
        /\ FreshEntry(calls[c].steamId, KindGames)

\* The calls that hold a grant of the limiter and have not yet issued their
\* transport call (makeRequest is resumed in a microtask).
GrantedCalls == {c \in Calls : calls[c].pc = "granted"}

\* C30 as stated: in every reachable state requestCount equals the number of
\* completed acquisitions of the rate limiter, which equals the number of
\* transport calls issued so far.
C30_CountIsTransportCalls ==
    /\ requestCount = Len(grants)
    /\ requestCount = Len(transport)

\* requestCount in a state: the acquisitions completed, which are the transport
\* calls issued plus the calls granted and about to issue theirs; every call
\* has one acquisition per transport call.
C30_CountNow ==
    /\ requestCount = Len(grants)
    /\ requestCount = Len(transport) + Cardinality(GrantedCalls)
    /\ \A c \in Calls :
          Cardinality({k \in 1..Len(grants) : grants[k].call = c})
             = Fetches(c) + (IF c \in GrantedCalls THEN 1 ELSE 0)

\* requestCount in a step: one more exactly when enforceRateLimit returns to a
\* call, whose transport call is the next step of that call; unchanged when a
\* transport call is issued or answered, when a call is rejected for its
\* identifier or served from the cache, and when findOverlappingGames rejects
\* its argument.
C30_CountWhenStepping ==
    /\ requestCount' =
          requestCount + (IF \E c \in Calls : LimiterReturns(c) THEN 1 ELSE 0)
    /\ \A c \in Calls :
          /\ (calls[c].pc = "granted" /\ calls'[c] # calls[c])
             => /\ calls'[c].pc = "fetching"
                /\ transport' = Append(transport, c)
                /\ requestCount' = requestCount
          /\ (calls[c].pc = "fetching" /\ calls'[c].pc = "done")
             => requestCount' = requestCount
          /\ (IssuedNow(c) /\ calls'[c].pc = "done")
             => requestCount' = requestCount /\ transport' = transport
    /\ (overlap.pc = "idle" /\ overlap'.pc = "done")
       => requestCount' = requestCount /\ transport' = transport

\* C30 as amended: requestCount always equals the number of completed
\* acquisitions of the rate limiter; the number of transport calls issued
\* equals it except while a call that has just been granted has not yet issued
\* its transport call, when it is lower by the number of such calls.
\* requestCount grows by one per acquisition, hence by one per transport call
\* whether that call succeeds or fails, and is unchanged by calls rejected for
\* an invalid identifier, by cache hits and by findOverlappingGames
\* precondition failures.
C30_CountIsAcquisitions == []C30_CountNow /\ [][C30_CountWhenStepping]_vars

\* Two transport calls, one answered with a library and one failed, have been
\* counted; a third call rejected or served from the cache has not.
C30_Witness ==
    /\ requestCount = 2
    /\ Len(transport) = 2
    /\ \E c, d, e \in Calls :
          /\ Failed(c) /\ Fetches(c) = 1
          /\ calls[d].pc = "done" /\ calls[d].outcome.kind = "returned" /\ Fetches(d) = 1
          /\ calls[e].pc = "done" /\ Fetches(e) = 0

\* Call c completes successfully through the transport in this step, and the
\* entry it writes.
SucceedsNow(c) == SettledNow(c) /\ calls'[c].outcome.kind = "returned"
Written(c) == [data |-> calls'[c].outcome.value, timestamp |-> now]

\* The entry under each key is the snapshot of a successful fetch for that
\* key, stamped with the time the fetch completed, and no successful fetch for
\* the key has completed later.
C31_EntryIsLatest ==
    \A key \in DOMAIN cache :
        /\ \E c \in Calls :
              /\ calls[c].pc = "done" /\ Fetches(c) = 1
              /\ KeyOf(c) = key
              /\ calls[c].outcome = Returned(cache[key].data)
        /\ \A c \in Calls :
              ( /\ calls[c].pc = "done" /\ Fetches(c) = 1
                /\ calls[c].op = "games"
                /\ calls[c].outcome.kind = "returned"
                /\ KeyOf(c) = key )
              => FetchedAt(calls[c].outcome) <= cache[key].timestamp

\* A successful fetch writes its own snapshot whatever entry its key holds and
\* whatever calls for the key are still in flight, and the content of an entry
\* changes in no other step.
C31_WrittenOnCompletion ==
    /\ \A c \in Calls :
          SucceedsNow(c) =>
              /\ generateKey(calls'[c].steamId, KindOf(c)) \in DOMAIN cache'
              /\ cache'[generateKey(calls'[c].steamId, KindOf(c))] = Written(c)
    /\ \A key \in DOMAIN cache' :
          \/ key \in DOMAIN cache /\ cache'[key] = cache[key]
          \/ \E c \in Calls :
                /\ SucceedsNow(c)
                /\ key = generateKey(calls'[c].steamId, KindOf(c))

\* C31: when several getOwnedGames calls for the same identifier are in flight
\* at once, each successful one writes its own snapshot on completion, so the
\* entry under (identifier, 'games') is always the snapshot of the successful
\* fetch that completed most recently, also when that fetch was issued before
\* another one that completed before it.
C31_LastWriterWins == []C31_EntryIsLatest /\ [][C31_WrittenOnCompletion]_vars

\* Call c was issued before call d for the same identifier, d's fetch completed
\* first with a snapshot and c's later with another one, and the cache holds
\* c's snapshot.
C31_Witness ==
    \E c, d \in Calls :
        /\ c < d
        /\ calls[c].pc = "done" /\ calls[d].pc = "done"
        /\ calls[c].op = "games" /\ calls[d].op = "games"
        /\ calls[c].steamId = calls[d].steamId
        /\ Fetches(c) = 1 /\ Fetches(d) = 1
        /\ calls[c].outcome.kind = "returned" /\ calls[d].outcome.kind = "returned"
        /\ FetchedAt(calls[d].outcome) < FetchedAt(calls[c].outcome)
        /\ calls[c].outcome # calls[d].outcome
        /\ KeyOf(c) \in DOMAIN cache
        /\ cache[KeyOf(c)].data = calls[c].outcome.value

\* C34: under any interleaving of getOwnedGames calls for different
\* identifiers, every snapshot stored in the cache under (id, 'games') and
\* every snapshot returned by getOwnedGames(id), fetched or read from the
\* cache, has steamId equal to id.
C34_SnapshotsKeepTheirId ==
    /\ \A id \in SteamIds :
          generateKey(id, KindGames) \in DOMAIN cache
          => cache[generateKey(id, KindGames)].data.v.steamId = id
    /\ \A c \in Calls :
          ( /\ calls[c].pc = "done"
            /\ calls[c].op = "games"
            /\ calls[c].outcome.kind = "returned" )
          => calls[c].outcome.value.v.steamId = calls[c].steamId

\* Two getOwnedGames calls for different identifiers were in flight together
\* (the second was granted before the first was answered), both have returned
\* a snapshot and the cache holds one entry for each identifier.
C34_Witness ==
    \E c, d \in Calls :
        /\ c < d
        /\ calls[c].steamId # calls[d].steamId
        /\ calls[c].pc = "done" /\ calls[d].pc = "done"
        /\ calls[c].op = "games" /\ calls[d].op = "games"
        /\ calls[c].outcome.kind = "returned" /\ calls[d].outcome.kind = "returned"
        /\ Fetches(c) = 1 /\ Fetches(d) = 1
        /\ FetchedAt(calls[d].outcome) < FetchedAt(calls[c].outcome)
        /\ KeyOf(c) \in DOMAIN cache /\ KeyOf(d) \in DOMAIN cache

\* The getOwnedGames calls the loop of findOverlappingGames has made, the
\* number of transport calls they have issued, and the call the loop makes in
\* this step.
LoopCalls == {overlap.started[k] : k \in 1..Len(overlap.started)}
LoopFetches == Cardinality({k \in 1..Len(transport) : transport[k] \in LoopCalls})
LoopCallsNow(c) ==
    /\ Len(overlap'.started) = Len(overlap.started) + 1
    /\ overlap'.started[Len(overlap'.started)] = c

\* At most one transport call per identifier of the list, and none for an
\* identifier of invalid format.
C33_AtMostOnePerId ==
    /\ LoopFetches <= Len(overlap.started)
    /\ overlap.started # <<>> => Len(overlap.started) <= Len(overlap.steamIds.v)
    /\ \A c \in LoopCalls :
          /\ Fetches(c) <= 1
          /\ ~validateSteamId(calls[c].steamId) => Fetches(c) = 0

\* No transport call for an identifier with a non-expired (id, 'games') entry
\* when the loop reaches it: the call returns the entry in that step.
C33_NoneWhenFresh ==
    \A c \in Calls :
        ( /\ LoopCallsNow(c)
          /\ validateSteamId(calls'[c].steamId)
          /\ FreshEntry(calls'[c].steamId, KindGames) )
        => /\ calls'[c].pc = "done"
           /\ calls'[c].outcome =
                 Returned(cache[generateKey(calls'[c].steamId, KindGames)].data)
           /\ transport' = transport

\* The loop's j-th call is for the identifier of its i-th call, i < j, whose
\* fetch succeeded.
SecondOccurrence(i, j) ==
    /\ i < j
    /\ calls[overlap.started[i]].steamId = calls[overlap.started[j]].steamId
    /\ calls[overlap.started[i]].outcome.kind = "returned"
    /\ Fetches(overlap.started[i]) = 1

\* C33 as stated: a findOverlappingGames call over N identifiers issues at
\* most N transport calls: none for an identifier of invalid format, none for
\* an identifier with a non-expired (id, 'games') entry, and none for the
\* second occurrence of an identifier whose first fetch succeeded.
C33_NoFetchForRepeatedId ==
    /\ []C33_AtMostOnePerId
    /\ [][C33_NoneWhenFresh]_vars
    /\ [](\A i, j \in 1..Len(overlap.started) :
              SecondOccurrence(i, j) => Fetches(overlap.started[j]) = 0)

\* C33 as amended: a findOverlappingGames call over N identifiers issues at
\* most N transport calls, at most one per identifier of the list: none for an
\* identifier of invalid format and none for an identifier with a non-expired
\* (id, 'games') entry when the loop reaches it.  When an identifier occurs
\* twice and its first fetch succeeds, there is no transport call for a second
\* occurrence that follows the first directly; one that comes later is fetched
\* again if the entry has expired by the time the loop reaches it.
C33_NoFetchWhileEntryFresh ==
    /\ []C33_AtMostOnePerId
    /\ [][C33_NoneWhenFresh]_vars
    /\ [](\A i, j \in 1..Len(overlap.started) :
              (SecondOccurrence(i, j) /\ j = i + 1) => Fetches(overlap.started[j]) = 0)

\* The loop has made its calls for a list of two equal identifiers: the first
\* fetched the library and the second made no transport call.
C33_Witness ==
    /\ Len(overlap.started) = 2
    /\ SecondOccurrence(1, 2)
    /\ calls[overlap.started[2]].pc = "done"
    /\ calls[overlap.started[2]].outcome.kind = "returned"
    /\ Fetches(overlap.started[2]) = 0
    /\ LoopFetches = 1

\* The calls suspended in enforceRateLimit.
Sleeping == {c \in Calls : calls[c].pc = "sleeping"}

\* A suspended caller has at most one minimum interval left to wait, however
\* many callers are suspended with it.
C32_WaitAtMostInterval ==
    \A c \in Sleeping :
        /\ calls[c].wakeAt - now <= minInterval
        /\ calls[c].wakeAt - now >= 0

====
